---- MODULE Spec2Model ----
(***************************************************************************)
(* Model of dynamongo's expression algebra and of Model.get_many, the      *)
(* query dispatcher with its batch and paginated result iterators.         *)
(*                                                                         *)
(* A condition object is a record                                          *)
(*     [kind, field, op, value, all]                                       *)
(* kind "prim" is a PrimitiveCondition (field name, operator, operands);   *)
(* kinds "and" / "or" are AndCondition / OrCondition with the child list   *)
(* `all`.  The other strategies accepted by get_many use the same record   *)
(* shape: "list" (a python list, items in `all`), "compound" (a            *)
(* CompoundKeyCondition, values in `all`), "scalar" (a bare scalar, value  *)
(* <<v>>, v = Empty being the empty string) and "none" (None).  An item of *)
(* a list is "scalar", "tuple", "dict" or "model" (an instance of the      *)
(* model class), with value <<hash value>> or <<hash value, range value>>. *)
(* `value` holds the operands of a comparison as a tuple: <<x>> for the    *)
(* one-operand operators, <<lo, hi>> for between, the listed values for    *)
(* in, <<>> for exists / not exists.                                       *)
(***************************************************************************)
EXTENDS Integers, Sequences, FiniteSets, TLC

\* ------------------------------------------------------------------------
\* Bounds of the model
MaxKeys == 2        \* longest list of point identifiers given to get_many
MaxLimit == 2       \* largest caller limit
MaxPage == 2        \* most items the store returns in one query/scan response
MaxRounds == 3      \* pages of the table: the store sends no cursor after them

\* ------------------------------------------------------------------------
\* Program constants
STRICT_HASH == 1
STRICT_RANGE == 2
STRICT_BOTH == 3
NoStrict == 0       \* strict_level=None

None == "None"      \* python None, where a name or a level is expected
NoLimit == 0 - 1    \* limit=None
Empty == 0          \* an empty value: None or ""

HashKey == "h"      \* cls.__hash_key__
RangeName == "r"    \* cls.__range_key__ of a model that declares one
OtherName == "o"    \* a field that is no key
FieldNames == {HashKey, RangeName, OtherName}

\* class OP
EQ == "=="
NE == "!="
LTE == "<="
LT == "<"
GTE == ">="
GT == ">"
IS_IN == "in"
CONTAINS == "contains"
BEGINS_WITH == "begins with"
EXISTS == "exists"
NOT_EXISTS == "not exists"
BETWEEN == "between"
Ops == {EQ, NE, LTE, LT, GTE, GT, IS_IN, CONTAINS, BEGINS_WITH, EXISTS, NOT_EXISTS, BETWEEN}

\* OP.name: the lower-cased name of the class attribute holding the operator
OpName(op) ==
    CASE op = EQ -> "eq"
      [] op = NE -> "ne"
      [] op = LTE -> "lte"
      [] op = LT -> "lt"
      [] op = GTE -> "gte"
      [] op = GT -> "gt"
      [] op = IS_IN -> "is_in"
      [] op = CONTAINS -> "contains"
      [] op = BEGINS_WITH -> "begins_with"
      [] op = EXISTS -> "exists"
      [] op = NOT_EXISTS -> "not_exists"
      [] op = BETWEEN -> "between"

\* OP.num_args
NumArgs(op) ==
    IF op \in {EXISTS, NOT_EXISTS} THEN 0
    ELSE IF op = BETWEEN THEN 2
    ELSE 1

\* ------------------------------------------------------------------------
\* Condition objects

\* PrimitiveCondition.__init__ stores exactly these instance attributes
PrimitiveConditionAttrs == {"field", "op", "value"}

\* PrimitiveCondition(field, op, value)
PrimitiveCondition(f, op, v) ==
    [kind |-> "prim", field |-> f, op |-> op, value |-> v, all |-> <<>>]

\* JoinCondition.__init__(left, right): self.all = [left, right]
AndCondition(l, r) ==
    [kind |-> "and", field |-> "", op |-> "", value |-> <<>>, all |-> <<l, r>>]

OrCondition(l, r) ==
    [kind |-> "or", field |-> "", op |-> "", value |-> <<>>, all |-> <<l, r>>]

IsPrimitive(e) == e.kind = "prim"
IsAnd(e) == e.kind = "and"
IsOr(e) == e.kind = "or"
\* isinstance(e, BaseCondition); CompoundKeyCondition does not extend it
IsBaseCondition(e) == e.kind \in {"prim", "and", "or"}

\* AndCondition.__and__ appends to self.all and returns self;
\* every other condition gets BaseCondition.__and__, a new AndCondition
CondAnd(a, b) ==
    IF IsAnd(a) THEN [a EXCEPT !.all = Append(a.all, b)]
    ELSE AndCondition(a, b)

\* OrCondition.__or__ appends to self.all and returns self;
\* every other condition gets BaseCondition.__or__, a new OrCondition
CondOr(a, b) ==
    IF IsOr(a) THEN [a EXCEPT !.all = Append(a.all, b)]
    ELSE OrCondition(a, b)

\* ------------------------------------------------------------------------
\* Rendering to boto3 predicates (to_boto_key / to_boto_attr)

\* the condition builders of boto3's Key; Attr has one for every operator
BotoKeyFns == {"eq", "lt", "lte", "gt", "gte", "begins_with", "between"}

NoBoto == [cls |-> "None"]
Ok(v) == [err |-> "none", val |-> v]
Raise(x) == [err |-> x, val |-> NoBoto]

\* PrimitiveCondition._to_boto(class_): getattr(class_(name), OP.name(op))(args)
PrimToBoto(e, class_) ==
    LET fn == OpName(e.op)
        n == NumArgs(e.op)
    IN  IF class_ = "Key" /\ fn \notin BotoKeyFns THEN Raise("AttributeError")
        ELSE IF n = 2 /\ Len(e.value) # 2 THEN Raise("TypeError")
        ELSE Ok([cls |-> class_, name |-> e.field, fn |-> fn,
                 args |-> IF n = 0 THEN <<>> ELSE e.value])

\* PrimitiveCondition.to_boto_key: the AttributeError of an `in` comparison
\* is raised again as FindOnMultipleKeysError
PrimToBotoKey(e) ==
    LET r == PrimToBoto(e, "Key")
    IN  IF r.err = "AttributeError" /\ e.op = IS_IN
        THEN Raise("FindOnMultipleKeysError")
        ELSE r

RECURSIVE ToBoto(_, _)
RECURSIVE JoinToBoto(_, _, _)

\* JoinCondition._to_boto over the first n children, joined left to right
JoinToBoto(e, class_, n) ==
    IF n = 1 THEN ToBoto(e.all[1], class_)
    ELSE LET left == JoinToBoto(e, class_, n - 1)
         IN  IF left.err # "none" THEN left
             ELSE LET right == ToBoto(e.all[n], class_)
                  IN  IF right.err # "none" THEN right
                      ELSE Ok([cls |-> IF IsAnd(e) THEN "And" ELSE "Or",
                               l |-> left.val, r |-> right.val])

ToBoto(e, class_) ==
    IF IsPrimitive(e)
    THEN IF class_ = "Key" THEN PrimToBotoKey(e) ELSE PrimToBoto(e, "Attr")
    ELSE JoinToBoto(e, class_, Len(e.all))

ToBotoKey(e) == ToBoto(e, "Key")
ToBotoAttr(e) == ToBoto(e, "Attr")

\* ------------------------------------------------------------------------
\* Key classification (class Model); rk is cls.__range_key__ (None if absent)

\* Model._primary_keys
PrimaryKeys(rk) == IF rk # None THEN <<HashKey, rk>> ELSE <<HashKey>>

SeqToSet(s) == {s[i] : i \in 1..Len(s)}

\* the read e.attr of a PrimitiveCondition
HasAttr == "attr" \in PrimitiveConditionAttrs

\* Model._is_key_expression; val is the boolean it returns
IsKeyExpression(e, rk) ==
    IF ~IsPrimitive(e) THEN [err |-> "none", val |-> FALSE]
    ELSE IF ~HasAttr THEN [err |-> "AttributeError", val |-> FALSE]
    ELSE [err |-> "none", val |-> e.field \in SeqToSet(PrimaryKeys(rk))]

\* the first error raised while testing the members of es, in order
RECURSIVE FirstKeyError(_, _)
FirstKeyError(es, rk) ==
    IF es = <<>> THEN "none"
    ELSE LET r == IsKeyExpression(Head(es), rk)
         IN  IF r.err # "none" THEN r.err ELSE FirstKeyError(Tail(es), rk)

\* [e for e in es if _is_key_expression(e) = want]
RECURSIVE FilterKey(_, _, _)
FilterKey(es, rk, want) ==
    IF es = <<>> THEN <<>>
    ELSE LET rest == FilterKey(Tail(es), rk, want)
         IN  IF IsKeyExpression(Head(es), rk).val = want
             THEN <<Head(es)>> \o rest ELSE rest

\* instance attributes of a Field that the classifier reads
FieldAttrs == {"name", "required", "native_type", "primitive_type"}

\* _equality_or_raise(e_) over the (hash, range) levels, in that order
EqualityOrRaise(e, rk, strict_level) ==
    LET Level(key, level, next) ==
            IF strict_level \in {STRICT_BOTH, level}
            THEN IF "op" \notin FieldAttrs THEN "AttributeError"
                 ELSE IF e.op # EQ /\ e.field = key THEN "ExpressionError"
                 ELSE next
            ELSE next
    IN  Level(HashKey, STRICT_HASH, Level(rk, STRICT_RANGE, "none"))

RECURSIVE FirstStrictError(_, _, _)
FirstStrictError(es, rk, strict_level) ==
    IF es = <<>> THEN "none"
    ELSE LET r == EqualityOrRaise(Head(es), rk, strict_level)
         IN  IF r # "none" THEN r ELSE FirstStrictError(Tail(es), rk, strict_level)

KeyResult(err, isNone, val) == [err |-> err, isNone |-> isNone, val |-> val]

\* variant: the members of a top-level OrCondition are looked at as well
DescendsIntoOr(expression) ==
    IF IsPrimitive(expression) THEN <<expression>>
    ELSE IF IsAnd(expression) \/ IsOr(expression) THEN expression.all
    ELSE <<>>

\* the comparisons _extract_key_conditions looks at: the condition itself,
\* or the members of a top-level AndCondition
Candidates(expression) ==
    IF IsPrimitive(expression) THEN <<expression>>
    ELSE IF IsAnd(expression) THEN expression.all
    ELSE <<>>

\* Model._extract_key_conditions once the key expressions are filtered out
CheckKeyConditions(expressions, rk, strict_level, all_required) ==
    IF Cardinality({expressions[i].field : i \in 1..Len(expressions)}) # Len(expressions)
    THEN KeyResult("ExpressionError", FALSE, <<>>)
    ELSE IF FirstStrictError(expressions, rk, strict_level) # "none"
    THEN KeyResult(FirstStrictError(expressions, rk, strict_level), FALSE, <<>>)
    ELSE IF all_required /\ Len(PrimaryKeys(rk)) # Len(expressions)
    THEN KeyResult("ExpressionError", FALSE, <<>>)
    ELSE IF Len(expressions) = 0 THEN KeyResult("none", TRUE, <<>>)
    ELSE IF Len(expressions) = 1 /\ expressions[1].field = rk
    THEN KeyResult("ExpressionError", FALSE, <<>>)
    ELSE KeyResult("none", FALSE, expressions)

\* Model._extract_key_conditions; strict_level is NoStrict or a STRICT_ level
ExtractKeyConditions(expression, rk, strict_level, all_required) ==
    IF expression.kind = "none" THEN KeyResult("none", TRUE, <<>>)
    ELSE IF FirstKeyError(Candidates(expression), rk) # "none"
    THEN KeyResult(FirstKeyError(Candidates(expression), rk), FALSE, <<>>)
    ELSE CheckKeyConditions(FilterKey(Candidates(expression), rk, TRUE),
                            rk, strict_level, all_required)

\* Model._key_map: the key values of an exact primary key condition
KeyMap(expression, rk) ==
    LET c == ExtractKeyConditions(expression, rk, STRICT_BOTH, TRUE)
    IN  IF c.err # "none" THEN KeyResult(c.err, FALSE, <<>>)
        ELSE IF c.isNone THEN KeyResult("TypeError", FALSE, <<>>)
        ELSE KeyResult("none", FALSE,
                       [i \in 1..Len(c.val) |-> [name |-> c.val[i].field, value |-> c.val[i].value]])

\* Model._extract_key_cond; val is the rendered key condition
ExtractKeyCond(expression, rk, strict_level, all_required) ==
    LET c == ExtractKeyConditions(expression, rk, strict_level, all_required)
    IN  IF c.err # "none" THEN KeyResult(c.err, FALSE, NoBoto)
        ELSE IF c.isNone THEN KeyResult("none", TRUE, NoBoto)
        ELSE LET r == IF Len(c.val) = 1 THEN ToBotoKey(c.val[1])
                      ELSE ToBotoKey(AndCondition(c.val[1], c.val[2]))
             IN  KeyResult(r.err, FALSE, r.val)

\* and_exp = expressions[0]; for e in expressions[1:]: and_exp &= e
RECURSIVE AndAll(_, _)
AndAll(and_exp, es) ==
    IF es = <<>> THEN and_exp ELSE AndAll(CondAnd(and_exp, Head(es)), Tail(es))

\* position in es of the first member that is no key expression (0 if none)
RECURSIVE FirstNonKey(_, _, _)
FirstNonKey(es, rk, i) ==
    IF i > Len(es) THEN 0
    ELSE IF ~IsKeyExpression(es[i], rk).val THEN i
    ELSE FirstNonKey(es, rk, i + 1)

\* variant: `and_exp &= e` writes the conjunction back into the tree
WritesBack(expression, at, first, and_exp) == [expression EXCEPT !.all[at] = and_exp]
\* the caller's AndCondition after `and_exp &= e` over its non-key children,
\* first being expressions[0] and at its position in expression.all:
\* AndCondition.__and__ appends in place to a first child that is an
\* AndCondition; any other first child gets a new node and stays as it is
AfterAndAll(expression, at, first, and_exp) ==
    IF IsAnd(first) THEN [expression EXCEPT !.all[at] = and_exp] ELSE expression

\* Model._extract_attr_cond; val is the rendered filter, expr is the caller's
\* condition object as the call leaves it (the in-place `&=` on a child that
\* is an AndCondition appends to that child)
ExtractAttrCond(expression, rk) ==
    LET Res(err, isNone, val, expr) ==
            [err |-> err, isNone |-> isNone, val |-> val, expr |-> expr]
    IN
    IF expression.kind = "none" THEN Res("none", TRUE, NoBoto, expression)
    ELSE IF IsPrimitive(expression) THEN
        LET k == IsKeyExpression(expression, rk)
        IN  IF k.err # "none" THEN Res(k.err, FALSE, NoBoto, expression)
            ELSE IF k.val THEN Res("none", TRUE, NoBoto, expression)
            ELSE LET r == ToBotoAttr(expression)
                 IN  Res(r.err, FALSE, r.val, expression)
    ELSE IF IsOr(expression) THEN
        LET r == ToBotoAttr(expression)
        IN  Res(r.err, FALSE, r.val, expression)
    ELSE IF IsAnd(expression) THEN
        LET ferr == FirstKeyError(expression.all, rk)
            expressions == FilterKey(expression.all, rk, FALSE)
        IN  IF ferr # "none" THEN Res(ferr, FALSE, NoBoto, expression)
            ELSE IF Len(expressions) > 0 THEN
                LET and_exp == AndAll(expressions[1], Tail(expressions))
                    at == FirstNonKey(expression.all, rk, 1)
                    after == AfterAndAll(expression, at, expressions[1], and_exp)
                    r == ToBotoAttr(and_exp)
                IN  Res(r.err, FALSE, r.val, after)
            ELSE Res("ExpressionError", FALSE, NoBoto, expression)
    ELSE Res("ExpressionError", FALSE, NoBoto, expression)

\* ------------------------------------------------------------------------
\* Point identifiers (Model._parse_one_strategy with allow_condition=False)

\* variant: every value of the instance is kept, key or not
AllData(vals, rk) ==
    IF \E i \in 1..Len(PrimaryKeys(rk)) : i > Len(vals) \/ vals[i] = Empty
    THEN [err |-> "ValidationError", keys |-> <<>>]
    ELSE [err |-> "none", keys |-> vals]

\* Model._clean_data(cls._primary_keys()) of an instance whose key fields
\* hold vals: every primary key must have a non-empty value
CleanData(vals, rk) ==
    LET n == Len(PrimaryKeys(rk))
    IN  IF \E i \in 1..n : i > Len(vals) \/ vals[i] = Empty
        THEN [err |-> "ValidationError", keys |-> <<>>]
        ELSE [err |-> "none", keys |-> SubSeq(vals, 1, n)]

\* Model._parse_one_strategy(strategy, False)
ParseOneStrategy(item, rk) ==
    IF IsBaseCondition(item) THEN
        LET k == KeyMap(item, rk)
            c == ExtractAttrCond(item, rk)
        IN  IF k.err # "none" THEN [err |-> k.err, keys |-> <<>>]
            ELSE IF c.err # "none" THEN [err |-> c.err, keys |-> <<>>]
            ELSE IF ~c.isNone THEN [err |-> "ValidationError", keys |-> <<>>]
            ELSE [err |-> "none",
                  keys |-> [i \in 1..Len(k.val) |-> k.val[i].value[1]]]
    ELSE IF item.kind = "model" THEN CleanData(item.value, rk)
    ELSE IF item.kind = "dict" THEN CleanData(item.value, rk)
    ELSE IF rk # None /\ item.kind = "tuple" /\ Len(item.value) = 2
         THEN CleanData(item.value, rk)
    ELSE IF rk = None THEN CleanData(item.value, rk)
    ELSE [err |-> "ValidationError", keys |-> <<>>]

\* [cls._parse_one_strategy(item, False) for item in items]: the error of
\* the first item that fails, or the keys of all of them
RECURSIVE ParseAll(_, _)
ParseAll(items, rk) ==
    IF items = <<>> THEN [err |-> "none", keys |-> <<>>]
    ELSE LET first == ParseOneStrategy(Head(items), rk)
             rest == ParseAll(Tail(items), rk)
         IN  IF first.err # "none" THEN [err |-> first.err, keys |-> <<>>]
             ELSE IF rest.err # "none" THEN rest
             ELSE [err |-> "none", keys |-> <<first.keys>> \o rest.keys]

\* ------------------------------------------------------------------------
\* Model.get_many: dispatch

NoneValue == [kind |-> "none", field |-> "", op |-> "", value |-> <<>>, all |-> <<>>]
Scalar(v) == [kind |-> "scalar", field |-> "", op |-> "", value |-> <<v>>, all |-> <<>>]
Item(k, vals) == [kind |-> k, field |-> "", op |-> "", value |-> vals, all |-> <<>>]
ListOf(k, items) == [kind |-> k, field |-> "", op |-> "", value |-> <<>>, all |-> items]

\* python truth value of the strategy in `if expression:`
Truthy(x) ==
    /\ x.kind # "none"
    /\ ~(x.kind = "scalar" /\ x.value[1] = Empty)

NoCond == [isNone |-> TRUE, val |-> NoBoto]
Cond(v) == [isNone |-> FALSE, val |-> v]

Plan(err, items, kc, fc, expr) ==
    [err |-> err, items |-> items, kc |-> kc, fc |-> fc, expr |-> expr]

\* the handler of FindOnMultipleKeysError in get_many
OnFindOnMultipleKeys(expression, rk, items) ==
    IF IsPrimitive(expression) /\ ~HasAttr
    THEN Plan("AttributeError", items, NoCond, NoCond, expression)
    ELSE IF IsPrimitive(expression) /\ expression.field = HashKey /\ rk = None
    THEN Plan("none", [i \in 1..Len(expression.value) |-> Scalar(expression.value[i])],
              NoCond, NoCond, expression)
    ELSE IF IsBaseCondition(expression)
    THEN LET r == ToBotoAttr(expression)
         IN  IF r.err # "none" THEN Plan(r.err, items, NoCond, NoCond, expression)
             ELSE Plan("none", items, NoCond, Cond(r.val), expression)
    ELSE Plan("FindOnMultipleKeysError", items, NoCond, NoCond, expression)

\* get_many up to `total_found = 0`: which of items, kc, fc the strategy
\* gives, or the exception it raises; expr is the caller's object afterwards
Dispatch(strategy, rk) ==
    LET isItems == strategy.kind \in {"compound", "list"}
        items == IF isItems THEN strategy.all ELSE <<>>
        expression == IF isItems THEN NoneValue ELSE strategy
        k == ExtractKeyCond(expression, rk, NoStrict, FALSE)
        a == ExtractAttrCond(expression, rk)
    IN  IF ~Truthy(expression) THEN Plan("none", items, NoCond, NoCond, strategy)
        ELSE IF k.err = "FindOnMultipleKeysError"
             THEN OnFindOnMultipleKeys(expression, rk, items)
        ELSE IF k.err # "none" THEN Plan(k.err, items, NoCond, NoCond, strategy)
        ELSE IF a.err # "none"
             THEN Plan(a.err, items, NoCond, NoCond, a.expr)
        ELSE Plan("none", items,
                  IF k.isNone THEN NoCond ELSE Cond(k.val),
                  IF a.isNone THEN NoCond ELSE Cond(a.val), a.expr)

\* ------------------------------------------------------------------------
\* State: one get_many call (a generator) against a model class

VARIABLES
    rk,             \* cls.__range_key__ of the model class (None if absent)
    strategy,       \* the caller's strategy object
    limit,          \* limit argument (NoLimit for None)
    descending,     \* descending argument
    pc,             \* "created", "batch", "search" (running), "yield"
                    \* (suspended on an item), "done" or "closed"
    error,          \* exception raised out of the generator ("none" if none)
    parsed,         \* keys parsed from the items, as first sent to the store
    keys,           \* keys still to fetch (batch mode)
    retry_while_no_items,
    total_found,
    kwargs,         \* keyword arguments of the next query/scan call
    operation,      \* transport operation in use: "none" before dispatch
    ncalls,         \* transport calls made so far
    call,           \* arguments of the latest transport call
    resp,           \* the store's answer to it
    prevItems,      \* items returned by the call before the latest (-1: none)
    yielded,        \* items the generator has handed to its caller
    row,            \* item of resp the generator is suspended on (0: none)
    index,          \* Update._index, the class attribute behind placeholder()
    updates,        \* argument of the latest UpdateBuilder.create call
    built,          \* what that call returned or raised
    thr,            \* per thread: position inside Update.placeholder()
    api,            \* the latest call of a Model operation and how it ended
    lists,          \* the python list objects BatchResults refer to
    results,        \* the BatchResults returned so far, oldest first
    calls,          \* Model operations called so far
    strict_level,   \* strict_level argument of _extract_key_conditions
    all_required,   \* all_required argument of _extract_key_conditions
    classified,     \* what _extract_key_conditions returned or raised
    plans,          \* what each dispatch of the strategy gave, oldest first
    nodes,          \* the condition objects built so far, by identity
    held            \* the builder calls made so far and what each returned

\* state of the update compiler
cvars == <<index, updates, built, thr>>

\* state of the Model operations other than the get_many generator
avars == <<api, lists, results, calls>>

\* state of the key classifier and of repeated dispatch
kvars == <<strict_level, all_required, classified, plans>>

\* state of the condition builders
hvars == <<nodes, held>>

vars == <<rk, strategy, limit, descending, pc, error, parsed, keys,
          retry_while_no_items, total_found, kwargs, operation, ncalls, call, resp,
          prevItems, yielded, row, cvars, avars, kvars, hvars>>

NoKwargs == [Limit |-> NoLimit, FilterExpression |-> NoCond,
             KeyConditionExpression |-> NoCond, ScanIndexForward |-> "absent",
             ExclusiveStartKey |-> 0]
NoCall == [op |-> "none", Keys |-> <<>>, kwargs |-> NoKwargs]
NoResp == [items |-> 0 - 1, unprocessed |-> <<>>, cursor |-> 0]

\* botocore's ClientError with an error code other than
\* ConditionalCheckFailedException
ClientError == "ClientError"

\* the transport call c of get_many raises ClientError: nothing catches it,
\* the generator raises it and is finished
TransportRaises(c) ==
    /\ call' = c
    /\ error' = ClientError
    /\ pc' = "done"
    /\ UNCHANGED <<keys, retry_while_no_items, kwargs, resp, prevItems, yielded, row>>

\* built before any UpdateBuilder.create call
NotBuilt == [err |-> "idle", expression |-> <<>>, values |-> <<>>, index |-> 0]

\* no update has been compiled: Update._index has its class-body value
CompilerIdle ==
    /\ index = 1
    /\ updates = <<>>
    /\ built = NotBuilt
    /\ thr = <<>>

\* api before any Model operation is called
NoApi == [name |-> "none", pc |-> "idle", err |-> "none", ret |-> "none",
          sent |-> 0, answer |-> "none", given |-> <<>>, guard |-> NoneValue,
          items |-> <<>>, result |-> 0]

\* the two lists made when `def __init__(self, fail=list(), success=list())`
\* of BatchResult is executed, at import
DefaultFail == 1
DefaultSuccess == 2

\* no Model operation has been called
ApiIdle ==
    /\ api = NoApi
    /\ lists = <<(<<>>), (<<>>)>>
    /\ results = <<>>
    /\ calls = 0

\* ------------------------------------------------------------------------
\* Inputs

\* the operands a builder of fields.py gives each operator
ValueFor(op) ==
    IF NumArgs(op) = 0 THEN <<>>
    ELSE IF op \in {BETWEEN, IS_IN} THEN <<1, 2>>
    ELSE <<1>>

Leaf(f, op) == PrimitiveCondition(f, op, ValueFor(op))

\* every comparison on every field
Leaves == {Leaf(f, op) : f \in FieldNames, op \in Ops}

\* comparisons joined by & and |
JoinLeaves ==
    {Leaf(HashKey, EQ), Leaf(HashKey, IS_IN), Leaf(HashKey, GT),
     Leaf(RangeName, EQ), Leaf(RangeName, BEGINS_WITH), Leaf(OtherName, CONTAINS)}
NestLeaves == {Leaf(HashKey, EQ), Leaf(OtherName, CONTAINS)}

Joins(S, T) == {CondAnd(x, y) : x \in S, y \in T} \cup {CondOr(x, y) : x \in S, y \in T}

\* a & b, a | b, and joins whose operands are themselves joins
Conditions ==
    Leaves \cup Joins(JoinLeaves, JoinLeaves)
           \cup Joins(Joins(NestLeaves, NestLeaves) \cup NestLeaves,
                      Joins(NestLeaves, NestLeaves) \cup NestLeaves)

\* point identifiers; a tuple identifies an item of a composite-key model only
Items(r) ==
    {Item("scalar", <<v>>) : v \in {Empty, 1, 2}}
        \cup {Item("dict", <<1, 1>>), Item("dict", <<2, Empty>>), Item("model", <<2, 1>>)}
        \cup (IF r # None THEN {Item("tuple", <<1, 2>>)} ELSE {})

SeqsUpTo(S, n) == UNION {[1..k -> S] : k \in 0..n}

Strategies(r) ==
    Conditions
        \cup {ListOf("list", items) : items \in SeqsUpTo(Items(r), MaxKeys)}
        \cup {ListOf("compound", items) : items \in SeqsUpTo(Items(r), MaxKeys)}
        \cup {NoneValue, Scalar(Empty), Scalar(1)}

\* limit is None or a positive count
Limits == {NoLimit} \cup 1..MaxLimit

\* classified before any _extract_key_conditions call
NotClassified == [err |-> "idle", isNone |-> FALSE, val |-> <<>>]

\* the classifier has not been called and the strategy not dispatched
ClassifierIdle ==
    /\ strict_level = NoStrict
    /\ all_required = FALSE
    /\ classified = NotClassified
    /\ plans = <<>>

\* no condition has been built
HeapIdle ==
    /\ nodes = <<>>
    /\ held = <<>>

\* ------------------------------------------------------------------------
\* The generator object get_many returns: nothing has run yet

Init ==
    /\ rk \in {None, RangeName}
    /\ strategy \in Strategies(rk)
    /\ limit \in Limits
    /\ descending \in BOOLEAN
    /\ pc = "created"
    /\ error = "none"
    /\ parsed = <<>>
    /\ keys = <<>>
    /\ retry_while_no_items = TRUE
    /\ total_found = 0
    /\ kwargs = NoKwargs
    /\ operation = "none"
    /\ ncalls = 0
    /\ call = NoCall
    /\ resp = NoResp
    /\ prevItems = 0 - 1
    /\ yielded = 0
    /\ row = 0
    /\ CompilerIdle
    /\ ApiIdle
    /\ ClassifierIdle
    /\ HeapIdle

\* the generator ends by raising x
Fails(x) ==
    /\ pc' = "done"
    /\ error' = x
    /\ UNCHANGED <<parsed, keys, kwargs, operation>>

\* kwargs of the first query/scan call
FirstKwargs(kc, fc) ==
    [Limit |-> limit,
     FilterExpression |-> fc,
     KeyConditionExpression |-> kc,
     ScanIndexForward |-> IF kc.isNone THEN "absent"
                          ELSE IF descending THEN "false" ELSE "true",
     ExclusiveStartKey |-> 0]

\* first next(): the body of get_many down to the loop it enters
Start ==
    /\ pc = "created"
    /\ \E d \in {Dispatch(strategy, rk)} : \E p \in {ParseAll(d.items, rk)} :
           /\ strategy' = d.expr
           /\ IF d.err # "none" THEN Fails(d.err)
              ELSE IF Len(d.items) > 0 THEN
                   IF p.err # "none" THEN Fails(p.err)
                   ELSE /\ pc' = "batch"
                        /\ error' = "none"
                        /\ parsed' = p.keys
                        /\ keys' = p.keys
                        /\ operation' = "batch_get_item"
                        /\ UNCHANGED kwargs
              ELSE IF ~d.kc.isNone \/ ~d.fc.isNone THEN
                   /\ pc' = "search"
                   /\ error' = "none"
                   /\ kwargs' = FirstKwargs(d.kc, d.fc)
                   /\ operation' = IF ~d.kc.isNone THEN "query" ELSE "scan"
                   /\ UNCHANGED <<parsed, keys>>
              ELSE Fails("ValidationError")
    /\ UNCHANGED <<rk, limit, descending, retry_while_no_items, total_found,
                   ncalls, call, resp, prevItems, yielded, row>>
    /\ UNCHANGED <<cvars, avars>>
    /\ UNCHANGED <<kvars, hvars>>

\* ------------------------------------------------------------------------
\* Batch mode: one pass of `while len(keys)`

\* the members of s at the positions in I, in order
RECURSIVE Pick(_, _, _)
Pick(s, I, i) ==
    IF i > Len(s) THEN <<>>
    ELSE (IF i \in I THEN <<s[i]>> ELSE <<>>) \o Pick(s, I, i + 1)

\* retry_while_no_items after a round that returned items
RetryAfterItems == TRUE
\* variant: an empty round leaves the retry allowance in place
RetryStaysAfterEmpty == TRUE
\* retry_while_no_items after an empty round that was allowed a retry
RetryAfterEmpty == FALSE
\* variant: an empty round never breaks the loop
NeverStopsOnEmpty(retry) == FALSE
\* the `else: break` of an empty round
StopsOnEmpty(retry) == ~retry

\* one batch_get_item call and what follows it up to the first `yield`
\* of the response, or to the end of the pass when it holds no item
BatchRound ==
    /\ pc = "batch"
    /\ Len(keys) > 0
    /\ \/ TransportRaises([op |-> "batch_get_item", Keys |-> keys, kwargs |-> NoKwargs])
       \/ \E U \in SUBSET (1..Len(keys)), F \in SUBSET (1..Len(keys)) :
         LET n == Cardinality(F)
             stop == n = 0 /\ StopsOnEmpty(retry_while_no_items)
             unprocessed == Pick(keys, U, 1)
         IN  /\ F \cap U = {}
             /\ call' = [op |-> "batch_get_item", Keys |-> keys, kwargs |-> NoKwargs]
             /\ error' = error
             /\ prevItems' = resp.items
             /\ resp' = [items |-> n, unprocessed |-> unprocessed, cursor |-> 0]
             /\ retry_while_no_items' =
                    IF n > 0 THEN RetryAfterItems
                    ELSE IF retry_while_no_items THEN RetryAfterEmpty
                    ELSE retry_while_no_items
             /\ IF n > 0
                THEN /\ pc' = "yield"
                     /\ row' = 1
                     /\ yielded' = yielded + 1
                     /\ keys' = keys
                ELSE /\ pc' = IF stop \/ Len(unprocessed) = 0 THEN "done" ELSE "batch"
                     /\ keys' = IF stop THEN keys ELSE unprocessed
                     /\ UNCHANGED <<yielded, row>>
             /\ UNCHANGED kwargs
    /\ ncalls' = ncalls + 1
    /\ UNCHANGED <<rk, strategy, limit, descending, parsed, operation, total_found>>
    /\ UNCHANGED <<cvars, avars>>
    /\ UNCHANGED <<kvars, hvars>>

\* next() on the generator suspended in `for item in items`: the count,
\* the limit test, then the next item or the end of the pass
BatchResume ==
    /\ pc = "yield"
    /\ operation = "batch_get_item"
    /\ total_found' = total_found + 1
    /\ IF limit # NoLimit /\ limit <= total_found + 1
       THEN /\ pc' = "done"
            /\ row' = 0
            /\ UNCHANGED <<keys, yielded>>
       ELSE IF row < resp.items
       THEN /\ pc' = "yield"
            /\ row' = row + 1
            /\ yielded' = yielded + 1
            /\ UNCHANGED keys
       ELSE /\ pc' = IF Len(resp.unprocessed) = 0 THEN "done" ELSE "batch"
            /\ row' = 0
            /\ keys' = resp.unprocessed
            /\ UNCHANGED yielded
    /\ UNCHANGED <<rk, strategy, limit, descending, error, parsed, kwargs, operation,
                   retry_while_no_items, ncalls, call, resp, prevItems>>
    /\ UNCHANGED <<cvars, avars>>
    /\ UNCHANGED <<kvars, hvars>>

\* ------------------------------------------------------------------------
\* Paginated mode: one pass of `while True`

\* variant: the next call repeats the original limit
SameLimit(lim, total) == lim
\* kwargs['Limit'] of the next call
NextLimit(lim, total) == lim - total

\* the pass after `for row in response['Items']`, with total items counted
\* and the store's cursor: the limit test, then the cursor test
AfterPage(total, cursor) ==
    LET remaining == NextLimit(limit, total)
        reached == limit # NoLimit /\ remaining < 1
        k1 == IF limit # NoLimit /\ ~reached
              THEN [kwargs EXCEPT !.Limit = remaining] ELSE kwargs
    IN  IF reached THEN pc' = "done" /\ kwargs' = kwargs
        ELSE IF cursor = 0 THEN pc' = "done" /\ kwargs' = k1
        ELSE pc' = "search" /\ kwargs' = [k1 EXCEPT !.ExclusiveStartKey = cursor]

\* one query/scan call and what follows it up to the first `yield` of the
\* response, or to the end of the pass when it holds no item
SearchRound ==
    /\ pc = "search"
    /\ \/ TransportRaises([op |-> operation, Keys |-> <<>>, kwargs |-> kwargs])
       \/ \E n \in 0..MaxPage, more \in BOOLEAN :
         LET cursor == IF more THEN ncalls + 1 ELSE 0
         IN  /\ (ncalls + 1 >= MaxRounds => ~more)
             /\ call' = [op |-> operation, Keys |-> <<>>, kwargs |-> kwargs]
             /\ error' = error
             /\ prevItems' = resp.items
             /\ UNCHANGED <<keys, retry_while_no_items>>
             /\ resp' = [items |-> n, unprocessed |-> <<>>, cursor |-> cursor]
             /\ IF n > 0
                THEN /\ pc' = "yield"
                     /\ row' = 1
                     /\ yielded' = yielded + 1
                     /\ UNCHANGED kwargs
                ELSE /\ AfterPage(total_found, cursor)
                     /\ UNCHANGED <<yielded, row>>
    /\ ncalls' = ncalls + 1
    /\ UNCHANGED <<rk, strategy, limit, descending, parsed, operation, total_found>>
    /\ UNCHANGED <<cvars, avars>>
    /\ UNCHANGED <<kvars, hvars>>

\* next() on the generator suspended in `for row in response['Items']`:
\* the count, then the next item or the rest of the pass
SearchResume ==
    /\ pc = "yield"
    /\ operation \in {"query", "scan"}
    /\ total_found' = total_found + 1
    /\ IF row < resp.items
       THEN /\ pc' = "yield"
            /\ row' = row + 1
            /\ yielded' = yielded + 1
            /\ UNCHANGED kwargs
       ELSE /\ AfterPage(total_found + 1, resp.cursor)
            /\ row' = 0
            /\ UNCHANGED yielded
    /\ UNCHANGED <<rk, strategy, limit, descending, error, parsed, keys,
                   retry_while_no_items, operation, ncalls, call, resp, prevItems>>
    /\ UNCHANGED <<cvars, avars>>
    /\ UNCHANGED <<kvars, hvars>>

\* the caller closes the generator it holds suspended on an item (or drops
\* its last reference): GeneratorExit is raised at the `yield`, the count
\* of that item is never made and no call follows
Close ==
    /\ pc = "yield"
    /\ api.pc # "reading"
    /\ pc' = "closed"
    /\ UNCHANGED <<rk, strategy, limit, descending, error, parsed, keys,
                   retry_while_no_items, total_found, kwargs, operation, ncalls,
                   call, resp, prevItems, yielded, row>>
    /\ UNCHANGED <<cvars, avars>>
    /\ UNCHANGED <<kvars, hvars>>

Next == Start \/ BatchRound \/ BatchResume \/ SearchRound \/ SearchResume \/ Close

Spec == Init /\ [][Next]_vars

\* ------------------------------------------------------------------------
\* Update expressions (updates.py) on the fields of fields.py

MaxUpdates == 3     \* longest list of updates given to UpdateBuilder.create
MaxIndex == 4       \* no compilation starts once Update._index reached this

\* python values: None, a str of n characters, the int n, a list of n items
NoneV == [t |-> "none", n |-> 0]
StrV(n) == [t |-> "str", n |-> n]
IntV(n) == [t |-> "int", n |-> n]
ListV(n) == [t |-> "list", n |-> n]
\* a dict: its entries <<key, value>> in insertion order, no key twice
DictV(e) == [t |-> "dict", e |-> e]

\* variant: only None is empty
OnlyNoneIsEmpty(value) == value.t = "none"
\* utils.is_empty: None or the empty string
is_empty(value) == value.t = "none" \/ (value.t = "str" /\ value.n = 0)

\* a Field bound to a schema: name is its dotted path, one member per level
Field(name, required) ==
    [name |-> name, required |-> required, type |-> "plain", fields |-> <<>>]
\* DictField(**fields): always required
DictField(name, fields) ==
    [name |-> name, required |-> TRUE, type |-> "dict", fields |-> fields]
\* '.' in field.name
IsNested(field) == Len(field.name) > 1

\* Field._process_empty_value
ProcessEmptyValue(field, value) ==
    IF is_empty(value)
    THEN IF field.required THEN Raise("ValidationError") ELSE Ok(NoneV)
    ELSE Ok(value)

\* SchematicFixer.to_primitive of a value of the field's own type: empty
\* values become None, any other value is validated and kept
SchematicToPrimitive(field, value) == ProcessEmptyValue(field, value)

\* key in d, d.get(key, None) and d[key] = value on the entries of a dict
HasKey(d, key) == \E i \in 1..Len(d) : d[i][1] = key
DictGet(d, key) ==
    IF HasKey(d, key) THEN d[CHOOSE i \in 1..Len(d) : d[i][1] = key][2] ELSE NoneV
DictPut(d, key, value) ==
    IF HasKey(d, key)
    THEN [i \in 1..Len(d) |-> IF d[i][1] = key THEN <<key, value>> ELSE d[i]]
    ELSE Append(d, <<key, value>>)

\* utils.merge_deep(destination, source), source the entries of a dict: a
\* copy of destination with every entry of source written into it, an entry
\* that is a dict merged into the one destination holds under that key.
\* Nothing is read of destination when source is empty; a destination that
\* is not a dict raises TypeError otherwise
RECURSIVE merge_deep(_, _)
merge_deep(destination, source) ==
    IF source = <<>> THEN Ok(destination)
    ELSE IF destination.t # "dict" THEN Raise("TypeError")
    ELSE IF HasKey(destination.e, Head(source)[1]) /\ Head(source)[2].t = "dict"
    THEN LET m == merge_deep(DictGet(destination.e, Head(source)[1]), Head(source)[2].e)
         IN  IF m.err # "none" THEN m
             ELSE merge_deep(DictV(DictPut(destination.e, Head(source)[1], m.val)),
                             Tail(source))
    ELSE merge_deep(DictV(DictPut(destination.e, Head(source)[1], Head(source)[2])),
                    Tail(source))

\* the key of a member of a DictField: the last part of its dotted name
MemberKey(field) == field.name[Len(field.name)]

RECURSIVE ToPrimitive(_, _)

\* DictField._generate('to_primitive', value), the loop: each member, in
\* order, converts value.get(key, None); the first exception ends the loop
RECURSIVE Generated(_, _)
Generated(fields, d) ==
    IF fields = <<>> THEN Ok(<<>>)
    ELSE LET p == ToPrimitive(Head(fields), DictGet(d, MemberKey(Head(fields))))
             rest == Generated(Tail(fields), d)
         IN  IF p.err # "none" THEN p
             ELSE IF rest.err # "none" THEN rest
             ELSE Ok(<<<<MemberKey(Head(fields)), p.val>>>> \o rest.val)

\* DictField._generate('to_primitive', value): None stands for {}; a value
\* without .get (a str, an int, a list) raises AttributeError as soon as a
\* member asks for its entry; the converted members are merged into value
Generate(field, value) ==
    IF field.fields = <<>> THEN Ok(IF value.t = "none" THEN DictV(<<>>) ELSE value)
    ELSE IF value.t \notin {"none", "dict"} THEN Raise("AttributeError")
    ELSE LET d == IF value.t = "none" THEN DictV(<<>>) ELSE value
             generated == Generated(field.fields, d.e)
         IN  IF generated.err # "none" THEN generated
             ELSE merge_deep(d, generated.val)

\* clean: the entries whose value is not empty
Clean(d) == SelectSeq(d, LAMBDA entry : ~is_empty(entry[2]))

\* DictField.to_primitive: value.items() raises AttributeError on what is
\* not a dict; the empty entries are dropped and what is left, {} included,
\* is not empty
DictToPrimitive(field, value) ==
    LET generated == Generate(field, value)
    IN  IF generated.err # "none" THEN generated
        ELSE IF generated.val.t # "dict" THEN Raise("AttributeError")
        ELSE ProcessEmptyValue(field, DictV(Clean(generated.val.e)))

\* field.to_primitive(value)
ToPrimitive(field, value) ==
    IF field.type = "dict" THEN DictToPrimitive(field, value)
    ELSE SchematicToPrimitive(field, value)

\* Update.value
UpdateValue(field, value) ==
    IF IsNested(field) THEN Raise("NotImplementedError")
    ELSE ToPrimitive(field, value)

\* UpdateBuilder.SET / ADD / REMOVE
SET == "SET"
ADD == "ADD"
REMOVE == "REMOVE"

\* the text of one clause: fn tells the template, ph = 0 is no placeholder
Clause(name, fn, ph) == [name |-> name, fn |-> fn, ph |-> ph]
NoClause == Clause(<<>>, "", 0)

\* UpdateBuilder.__init__; values maps placeholder names to values
UpdateBuilder(type_, expression, values) ==
    [type_ |-> type_, expression |-> expression, values |-> values]
NoBuilder == UpdateBuilder("None", NoClause, <<>>)

\* what update.create() gives: the exception or the builder (NoBuilder for
\* None), and Update._index as the call leaves it
Created(err, builder, ix) == [err |-> err, builder |-> builder, index |-> ix]

\* variant: the counter is read but not advanced
StuckPlaceholder(ix) == [index |-> ix, name |-> ix + 1]
\* Update.placeholder, run without interruption: ':val{}'.format(n) is
\* modelled by n
Placeholder(ix) == [index |-> ix + 1, name |-> ix + 1]

\* the update nodes
SetUpdate(field, value, if_not_exists) ==
    [kind |-> "set", field |-> field, value |-> value,
     if_not_exists |-> if_not_exists, append |-> FALSE]
RemoveUpdate(field) ==
    [kind |-> "remove", field |-> field, value |-> NoneV,
     if_not_exists |-> FALSE, append |-> FALSE]
AddUpdate(field, value) ==
    [kind |-> "add", field |-> field, value |-> value,
     if_not_exists |-> FALSE, append |-> FALSE]
ListExtendUpdate(field, value, append) ==
    [kind |-> "extend", field |-> field, value |-> value,
     if_not_exists |-> FALSE, append |-> append]

\* RemoveUpdate.create
RemoveCreate(field, ix) ==
    IF UpdateValue(field, NoneV).err # "none"
    THEN Created(UpdateValue(field, NoneV).err, NoBuilder, ix)
    ELSE Created("none", UpdateBuilder(REMOVE, Clause(field.name, "remove", 0), <<>>), ix)

\* SetUpdate.create
SetCreate(u, ix) ==
    LET value == UpdateValue(u.field, u.value)
        ph == Placeholder(ix)
    IN  IF value.err # "none" THEN Created(value.err, NoBuilder, ix)
        ELSE IF is_empty(value.val)
        THEN IF u.if_not_exists THEN Created("none", NoBuilder, ix)
             ELSE RemoveCreate(u.field, ix)
        ELSE Created("none",
                     UpdateBuilder(SET,
                         Clause(u.field.name,
                                IF u.if_not_exists THEN "if_not_exists" ELSE "set",
                                ph.name),
                         [p \in {ph.name} |-> value.val]),
                     ph.index)

\* ListExtendUpdate.create
ListExtendCreate(u, ix) ==
    LET value == UpdateValue(u.field, u.value)
        ph == Placeholder(ix)
    IN  IF value.err # "none" THEN Created(value.err, NoBuilder, ix)
        ELSE IF is_empty(value.val) THEN Created("none", NoBuilder, ix)
        ELSE Created("none",
                     UpdateBuilder(SET,
                         Clause(u.field.name,
                                IF u.append THEN "list_append" ELSE "list_prepend",
                                ph.name),
                         [p \in {ph.name} |-> value.val]),
                     ph.index)

\* AddUpdate.create
AddCreate(u, ix) ==
    LET value == UpdateValue(u.field, u.value)
        ph == Placeholder(ix)
    IN  IF IsNested(u.field) THEN Created("Exception", NoBuilder, ix)
        ELSE IF value.err # "none" THEN Created(value.err, NoBuilder, ix)
        ELSE IF is_empty(value.val) THEN Created("none", NoBuilder, ix)
        ELSE Created("none",
                     UpdateBuilder(ADD, Clause(u.field.name, "add", ph.name),
                                   [p \in {ph.name} |-> value.val]),
                     ph.index)

\* update.create()
UpdateCreate(u, ix) ==
    CASE u.kind = "set" -> SetCreate(u, ix)
      [] u.kind = "remove" -> RemoveCreate(u.field, ix)
      [] u.kind = "add" -> AddCreate(u, ix)
      [] u.kind = "extend" -> ListExtendCreate(u, ix)

\* builders = [update.create() for update in updates]: the first exception
\* ends the comprehension, the placeholders taken before it stay taken
RECURSIVE CreateAll(_, _)
CreateAll(us, ix) ==
    IF us = <<>> THEN [err |-> "none", builders |-> <<>>, index |-> ix]
    ELSE LET c == UpdateCreate(Head(us), ix)
         IN  IF c.err # "none" THEN [err |-> c.err, builders |-> <<>>, index |-> c.index]
             ELSE LET rest == CreateAll(Tail(us), c.index)
                  IN  [err |-> rest.err,
                       builders |-> IF rest.err # "none" THEN <<>>
                                    ELSE <<c.builder>> \o rest.builders,
                       index |-> rest.index]

\* expressions[type_]: the clauses of the builders of one type, in order
RECURSIVE Options(_, _)
Options(builders, type_) ==
    IF builders = <<>> THEN <<>>
    ELSE (IF Head(builders).type_ = type_ THEN <<Head(builders).expression>> ELSE <<>>)
             \o Options(Tail(builders), type_)

\* values.update(builder.values) over the builders, in order
RECURSIVE MergeValues(_, _)
MergeValues(values, builders) ==
    IF builders = <<>> THEN values
    ELSE MergeValues([p \in DOMAIN values \cup DOMAIN Head(builders).values |->
                         IF p \in DOMAIN Head(builders).values
                         THEN Head(builders).values[p] ELSE values[p]],
                     Tail(builders))

\* variant: the REMOVE group is written before the ADD group
RemoveBeforeAdd == <<SET, REMOVE, ADD>>
\* the keys of the OrderedDict `expressions`, in insertion order
GroupOrder == <<SET, ADD, REMOVE>>

\* e: one '{action} {options}' segment per group that has clauses
RECURSIVE Segments(_, _)
Segments(builders, actions) ==
    IF actions = <<>> THEN <<>>
    ELSE (IF Len(Options(builders, Head(actions))) > 0
          THEN <<[action |-> Head(actions), options |-> Options(builders, Head(actions))]>>
          ELSE <<>>)
             \o Segments(builders, Tail(actions))

\* UpdateBuilder.create: expression is ' '.join(e), kept as its segments
UpdateBuilderCreate(us, ix) ==
    LET Result(c) ==
            IF c.err # "none"
            THEN [err |-> c.err, expression |-> <<>>, values |-> <<>>, index |-> c.index]
            ELSE [err |-> "none",
                  expression |-> Segments(c.builders, GroupOrder),
                  values |-> MergeValues(<<>>, c.builders),
                  index |-> c.index]
    IN  CHOOSE r \in {Result(c) : c \in {CreateAll(us, ix)}} : TRUE

\* fields of a model class: plain attributes, a required one, a nested one
\* (member of a DictField) and a ListField, which is always required
NameField == Field(<<"name">>, FALSE)
CountField == Field(<<"count">>, FALSE)
TagField == Field(<<"tag">>, FALSE)
RequiredField == Field(<<"email">>, TRUE)
NestedField == Field(<<"info", "hits">>, FALSE)
TagsField == Field(<<"tags">>, TRUE)
\* DictFields: one of plain members, one with a required member, one whose
\* member is a DictField
InfoField == DictField(<<"info">>, <<NestedField>>)
OwnerField == DictField(<<"owner">>, <<Field(<<"owner", "id">>, TRUE)>>)
ProfileField ==
    DictField(<<"profile">>,
              <<DictField(<<"profile", "inner">>,
                          <<Field(<<"profile", "inner", "hits">>, FALSE)>>)>>)

\* updates made by the builders of fields.py (set, set_if_not_exists,
\* remove, add, append, prepend)
UpdateNodes ==
    {SetUpdate(NameField, StrV(1), FALSE), SetUpdate(NameField, NoneV, FALSE),
     SetUpdate(TagField, StrV(0), FALSE),
     SetUpdate(NameField, StrV(1), TRUE), SetUpdate(NameField, NoneV, TRUE),
     SetUpdate(RequiredField, NoneV, FALSE), SetUpdate(NestedField, IntV(1), FALSE),
     SetUpdate(InfoField, NoneV, FALSE), SetUpdate(InfoField, NoneV, TRUE),
     SetUpdate(InfoField, StrV(0), FALSE), SetUpdate(OwnerField, NoneV, FALSE),
     SetUpdate(OwnerField, DictV(<<<<"x", IntV(5)>>>>), FALSE),
     SetUpdate(OwnerField, DictV(<<<<"id", IntV(1)>>, <<"x", StrV(0)>>>>), FALSE),
     SetUpdate(ProfileField, NoneV, FALSE),
     SetUpdate(ProfileField, DictV(<<<<"inner", NoneV>>>>), FALSE),
     RemoveUpdate(TagField), RemoveUpdate(RequiredField),
     AddUpdate(CountField, IntV(1)), AddUpdate(CountField, IntV(0)),
     AddUpdate(CountField, NoneV), AddUpdate(NestedField, IntV(1)),
     ListExtendUpdate(TagsField, ListV(0), TRUE), ListExtendUpdate(TagsField, ListV(0), FALSE),
     ListExtendUpdate(TagsField, ListV(2), FALSE)}

UpdateLists == SeqsUpTo(UpdateNodes, MaxUpdates)

\* nothing of get_many is running
GetManyIdle ==
    /\ rk = None
    /\ strategy = NoneValue
    /\ limit = NoLimit
    /\ descending = FALSE
    /\ pc = "idle"
    /\ error = "none"
    /\ parsed = <<>>
    /\ keys = <<>>
    /\ retry_while_no_items = TRUE
    /\ total_found = 0
    /\ kwargs = NoKwargs
    /\ operation = "none"
    /\ ncalls = 0
    /\ call = NoCall
    /\ resp = NoResp
    /\ prevItems = 0 - 1
    /\ yielded = 0
    /\ row = 0

gvars == <<rk, strategy, limit, descending, pc, error, parsed, keys,
           retry_while_no_items, total_found, kwargs, operation, ncalls, call, resp,
           prevItems, yielded, row>>

\* a caller holds a list of updates; earlier compilations of the process
\* may have moved Update._index
InitCompile ==
    /\ GetManyIdle
    /\ index \in 1..2
    /\ updates \in UpdateLists
    /\ built = NotBuilt
    /\ thr = <<>>
    /\ ApiIdle
    /\ ClassifierIdle
    /\ HeapIdle

\* one call UpdateBuilder.create(updates)
Compile ==
    /\ pc = "idle"
    /\ thr = <<>>
    /\ index < MaxIndex
    /\ built' = UpdateBuilderCreate(updates, index)
    /\ index' = built'.index
    /\ UNCHANGED <<gvars, updates, thr, avars>>
    /\ UNCHANGED <<kvars, hvars>>

NextCompile == Compile

SpecCompile == InitCompile /\ [][NextCompile]_vars

\* ------------------------------------------------------------------------
\* Update.placeholder called from several threads (updates.py:86-90).
\* `Update._index += 1` is a read of the class attribute, an addition and
\* a write; the return statement reads the attribute again.  Nothing locks
\* the attribute, so the steps of different threads interleave.

NThreads == 2       \* threads compiling update expressions
MaxCalls == 2       \* placeholder() calls made by each thread

Threads == 1..NThreads

\* a thread about to call placeholder(); names are the placeholders its
\* expression received so far
ThreadStart == [pc |-> "load", loaded |-> 0, names |-> <<>>]

InitThreads ==
    /\ GetManyIdle
    /\ index = 1
    /\ updates = <<>>
    /\ built = NotBuilt
    /\ thr = [t \in Threads |-> ThreadStart]
    /\ ApiIdle
    /\ ClassifierIdle
    /\ HeapIdle

\* Update._index += 1, first half: read Update._index
Load(t) ==
    /\ thr[t].pc = "load"
    /\ Len(thr[t].names) < MaxCalls
    /\ thr' = [thr EXCEPT ![t].pc = "store", ![t].loaded = index]
    /\ UNCHANGED <<gvars, index, updates, built, avars>>
    /\ UNCHANGED <<kvars, hvars>>

\* Update._index += 1, second half: write the sum back
Store(t) ==
    /\ thr[t].pc = "store"
    /\ index' = thr[t].loaded + 1
    /\ thr' = [thr EXCEPT ![t].pc = "format"]
    /\ UNCHANGED <<gvars, updates, built, avars>>
    /\ UNCHANGED <<kvars, hvars>>

\* return ':val{}'.format(Update._index)
Format(t) ==
    /\ thr[t].pc = "format"
    /\ thr' = [thr EXCEPT ![t].pc = "load",
                          ![t].names = Append(thr[t].names, index)]
    /\ UNCHANGED <<gvars, index, updates, built, avars>>
    /\ UNCHANGED <<kvars, hvars>>

NextThreads == \E t \in Threads : Load(t) \/ Store(t) \/ Format(t)

SpecThreads == InitThreads /\ [][NextThreads]_vars

\* ------------------------------------------------------------------------
\* The operations of Model (model.py): get_one, get_many, delete_one,
\* delete_many, save_one, save_many, update_one, called by one caller, also
\* between two items of a generator it holds.  The store answers each
\* transport call as it likes.

MaxApiCalls == 2    \* operations called in one behaviour
MaxItems == 2       \* longest list given to save_many / delete_many

\* the error code ConditionalCheckFailedException of a ClientError, and the
\* exception class of exceptions.py that save_one raises for it
CCFE == "ConditionalCheckFailedException"

\* a successful answer of get_item without 'Item', or of delete_item
\* without 'Attributes': no item has the key
NoItem == "no item"

\* the store's answers to a transport call of operation t; a conditional
\* check fails only where a ConditionExpression was sent, and only get_item
\* and delete_item succeed without an item
Answers(t, guarded) ==
    {"ok", ClientError}
        \cup (IF guarded THEN {CCFE} ELSE {})
        \cup (IF t \in {"get_item", "delete_item"} THEN {NoItem} ELSE {})

\* how a call ended: it raised err, or returned ret
Raised(name, err, sent, answer) ==
    [NoApi EXCEPT !.name = name, !.pc = "raised", !.err = err,
                  !.sent = sent, !.answer = answer]
Returned(name, ret, sent, answer) ==
    [NoApi EXCEPT !.name = name, !.pc = "returned", !.ret = ret,
                  !.sent = sent, !.answer = answer]

\* the generator variables of a get_many(s, d, l) call in position p
Generator(s, l, d, p) ==
    /\ strategy' = s
    /\ limit' = l
    /\ descending' = d
    /\ pc' = p
    /\ error' = "none"
    /\ parsed' = <<>>
    /\ keys' = <<>>
    /\ retry_while_no_items' = TRUE
    /\ total_found' = 0
    /\ kwargs' = NoKwargs
    /\ operation' = "none"
    /\ ncalls' = 0
    /\ call' = NoCall
    /\ resp' = NoResp
    /\ prevItems' = 0 - 1
    /\ yielded' = 0
    /\ row' = 0
    /\ UNCHANGED rk

\* a caller that makes n calls at most starts an operation once the one
\* before has ended; a generator it holds is suspended, not running (the
\* body of get_many runs on the caller's thread, inside next())
CanCall(n) ==
    /\ calls < n
    /\ pc \notin {"batch", "search"}
    /\ api.pc # "reading"

\* a condition on the hash key alone, with a filter, on no key, and an
\* alternative
KeyOnly == Leaf(HashKey, EQ)
KeyAndFilter == CondAnd(Leaf(HashKey, EQ), Leaf(OtherName, CONTAINS))
FilterOnly == Leaf(OtherName, CONTAINS)
EitherFilter == CondOr(Leaf(HashKey, EQ), Leaf(OtherName, CONTAINS))
ApiConditions == {KeyOnly, KeyAndFilter, FilterOnly, EitherFilter}

\* single-item strategies
ApiOne(r) == Items(r) \cup ApiConditions

\* Model._parse_one_strategy(strategy): the error it raises and whether the
\* condition it returns is not None
ParseWithCondition(item, r) ==
    IF IsBaseCondition(item) THEN
        LET k == KeyMap(item, r)
            c == ExtractAttrCond(item, r)
        IN  IF k.err # "none" THEN [err |-> k.err, guarded |-> FALSE]
            ELSE IF c.err # "none" THEN [err |-> c.err, guarded |-> FALSE]
            ELSE [err |-> "none", guarded |-> ~c.isNone]
    ELSE [err |-> ParseOneStrategy(item, r).err, guarded |-> FALSE]

InitApi ==
    /\ rk \in {None, RangeName}
    /\ strategy = NoneValue
    /\ limit = NoLimit
    /\ descending = FALSE
    /\ pc = "idle"
    /\ error = "none"
    /\ parsed = <<>>
    /\ keys = <<>>
    /\ retry_while_no_items = TRUE
    /\ total_found = 0
    /\ kwargs = NoKwargs
    /\ operation = "none"
    /\ ncalls = 0
    /\ call = NoCall
    /\ resp = NoResp
    /\ prevItems = 0 - 1
    /\ yielded = 0
    /\ row = 0
    /\ CompilerIdle
    /\ ApiIdle
    /\ ClassifierIdle
    /\ HeapIdle

\* variant: get_item is called before the strategy is parsed
GetOneAsksFirst(p, a) ==
    IF a = ClientError THEN Raised("get_one", a, 1, a)
    ELSE IF p.err # "none" THEN Raised("get_one", p.err, 1, a)
    ELSE IF a = NoItem THEN Returned("get_one", "None", 1, a)
    ELSE Returned("get_one", "item", 1, a)
\* get_one given what _parse_one_strategy gives and what the store would
\* answer: the strategy is parsed, then get_item is called; an answer
\* without 'Item' makes the call return None
GetOneEnds(p, a) ==
    IF p.err # "none" THEN Raised("get_one", p.err, 0, "none")
    ELSE IF a = "ok" THEN Returned("get_one", "item", 1, a)
    ELSE IF a = NoItem THEN Returned("get_one", "None", 1, a)
    ELSE Raised("get_one", a, 1, a)

\* Model.get_one(strategy)
GetOne(n) ==
    /\ CanCall(n)
    /\ \E item \in ApiOne(rk), a \in Answers("get_item", FALSE) :
         api' = GetOneEnds(ParseOneStrategy(item, rk), a)
    /\ calls' = calls + 1
    /\ UNCHANGED gvars
    /\ UNCHANGED <<cvars, lists, results>>
    /\ UNCHANGED <<kvars, hvars>>

\* Model.get_many(strategy, descending, limit): the call makes the
\* generator object and runs none of the body
GetMany(n) ==
    /\ CanCall(n)
    /\ \E s \in ApiConditions \cup {ListOf("list", <<Item("scalar", <<1>>)>>), NoneValue},
          l \in {NoLimit, 1}, d \in BOOLEAN :
         Generator(s, l, d, "created")
    /\ api' = [NoApi EXCEPT !.name = "get_many", !.pc = "created", !.ret = "generator"]
    /\ calls' = calls + 1
    /\ UNCHANGED <<cvars, lists, results>>
    /\ UNCHANGED <<kvars, hvars>>

\* Model._delete_one(keys, condition) after the store answered a: None is
\* returned when the answer has no 'Attributes' and when the conditional
\* check failed
DeleteOneEnds(name, a) ==
    IF a = "ok" THEN Returned(name, "item", 1, a)
    ELSE IF a \in {NoItem, CCFE} THEN Returned(name, "None", 1, a)
    ELSE Raised(name, a, 1, a)

\* Model.delete_one(strategy)
DeleteOne(n) ==
    /\ CanCall(n)
    /\ \E item \in ApiOne(rk) : \E p \in {ParseWithCondition(item, rk)} :
         IF p.err # "none" THEN api' = Raised("delete_one", p.err, 0, "none")
         ELSE \E a \in Answers("delete_item", p.guarded) :
                api' = DeleteOneEnds("delete_one", a)
    /\ calls' = calls + 1
    /\ UNCHANGED gvars
    /\ UNCHANGED <<cvars, lists, results>>
    /\ UNCHANGED <<kvars, hvars>>

\* overwrite=True and overwrite=False
OverwriteTrue == Item("bool", <<1>>)
OverwriteFalse == Item("bool", <<Empty>>)
Overwrites == {OverwriteTrue, OverwriteFalse, FilterOnly}

\* Model._to_self(item): a dict or an instance, else ValidationError
ToSelf(item) == IF item.kind \in {"dict", "model"} THEN "none" ELSE "ValidationError"

\* overwrite=False in save_one: `key != data[key]` for every primary key,
\* joined with &
KeyGuard(vals, r) ==
    LET ne(i) == PrimitiveCondition(PrimaryKeys(r)[i], NE, <<vals[i]>>)
    IN  IF r = None THEN ne(1) ELSE CondAnd(ne(1), ne(2))

\* save_one down to the put_item call: the exception raised before it and
\* whether a ConditionExpression is sent
SaveOneParams(item, overwrite, r) ==
    IF ToSelf(item) # "none" THEN [err |-> ToSelf(item), guarded |-> FALSE]
    ELSE IF CleanData(item.value, r).err # "none"
         THEN [err |-> CleanData(item.value, r).err, guarded |-> FALSE]
    ELSE IF overwrite = OverwriteFalse
         THEN [err |-> ToBotoAttr(KeyGuard(item.value, r)).err, guarded |-> TRUE]
    ELSE IF IsBaseCondition(overwrite)
         THEN [err |-> ToBotoAttr(overwrite).err, guarded |-> TRUE]
    ELSE [err |-> "none", guarded |-> FALSE]

\* items to save: two valid ones, one that lacks the range key of a
\* composite model, one that is neither dict nor instance
SaveItems == {Item("dict", <<1, 1>>), Item("model", <<2, 1>>),
              Item("dict", <<2, Empty>>), Item("scalar", <<1>>)}

\* save_one after put_item: the conditional check failure is raised again
\* as exceptions.ConditionalCheckFailedException, any other error as it is
SaveOneEnds(a) ==
    IF a = "ok" THEN Returned("save_one", "item", 1, a)
    ELSE Raised("save_one", a, 1, a)

\* Model.save_one(item, overwrite)
SaveOne(n) ==
    /\ CanCall(n)
    /\ \E item \in SaveItems, overwrite \in Overwrites :
         \E p \in {SaveOneParams(item, overwrite, rk)} :
           IF p.err # "none" THEN api' = Raised("save_one", p.err, 0, "none")
           ELSE \E a \in Answers("put_item", p.guarded) : api' = SaveOneEnds(a)
    /\ calls' = calls + 1
    /\ UNCHANGED gvars
    /\ UNCHANGED <<cvars, lists, results>>
    /\ UNCHANGED <<kvars, hvars>>

\* what a loop over the items of a batch has done so far: the exception
\* that ended it, the positions appended to result.success and to
\* result.fail, the transport calls made, and per item whether it went out
\* with a condition and what the store answered
Loop(err, success, fail, sent, items) ==
    [err |-> err, success |-> success, fail |-> fail, sent |-> sent, items |-> items]
Attempt(guarded, answer) == [guarded |-> guarded, answer |-> answer]

\* the for loop of save_many from item i on
RECURSIVE SaveLoop(_, _, _, _, _, _)
SaveLoop(items, overwrite, r, answers, i, acc) ==
    IF i > Len(items) THEN acc
    ELSE LET p == SaveOneParams(items[i], overwrite, r)
             sent == [acc EXCEPT !.sent = @ + 1,
                                 !.items = Append(@, Attempt(p.guarded, answers[i]))]
         IN  IF p.err # "none" THEN [acc EXCEPT !.err = p.err]
             ELSE IF answers[i] = "ok"
                  THEN SaveLoop(items, overwrite, r, answers, i + 1,
                                [sent EXCEPT !.success = Append(@, i)])
             ELSE IF answers[i] = CCFE
                  THEN SaveLoop(items, overwrite, r, answers, i + 1,
                                [sent EXCEPT !.fail = Append(@, i)])
             ELSE [sent EXCEPT !.err = answers[i]]

\* the error of the first item that _to_self or _clean_data rejects
RECURSIVE FirstSaveError(_, _)
FirstSaveError(items, r) ==
    IF items = <<>> THEN "none"
    ELSE IF SaveOneParams(Head(items), OverwriteTrue, r).err # "none"
         THEN SaveOneParams(Head(items), OverwriteTrue, r).err
    ELSE FirstSaveError(Tail(items), r)

\* the objects of call c at the positions ps
Ids(c, ps) == [j \in 1..Len(ps) |-> <<c, ps[j]>>]

\* BatchResult(fail, success): the instance keeps the lists it was given
BatchResult(fail, success, c) == [fail |-> fail, success |-> success, call |-> c]

\* a call that returns the BatchResult it appends to results
ReturnedResult(name, sent, items) ==
    [Returned(name, "result", sent, "none") EXCEPT
        !.items = items, !.result = Len(results) + 1]

\* the arguments of a bulk call, kept with its outcome
Given(a, items, guard) == [a EXCEPT !.given = items, !.guard = guard]

\* Model.save_many(items, overwrite)
SaveMany(n) ==
    /\ CanCall(n)
    /\ \E items \in SeqsUpTo(SaveItems, MaxItems), overwrite \in Overwrites :
         IF IsBaseCondition(overwrite) \/ overwrite = OverwriteFalse
         THEN \* result = BatchResult(); save_one for each item
              \E answers \in [1..Len(items) -> Answers("put_item", TRUE)] :
                \E d \in {SaveLoop(items, overwrite, rk, answers, 1,
                                   Loop("none", <<>>, <<>>, 0, <<>>))} :
                  /\ lists' = [lists EXCEPT
                        ![DefaultSuccess] = @ \o Ids(calls + 1, d.success),
                        ![DefaultFail] = @ \o Ids(calls + 1, d.fail)]
                  /\ IF d.err # "none"
                     THEN /\ api' = Given([Raised("save_many", d.err, d.sent, "none")
                                              EXCEPT !.items = d.items],
                                         items, overwrite)
                          /\ UNCHANGED results
                     ELSE /\ api' = Given(ReturnedResult("save_many", d.sent, d.items),
                                         items, overwrite)
                          /\ results' = Append(results,
                                BatchResult(DefaultFail, DefaultSuccess, calls + 1))
         ELSE \* one batch write, then BatchResult(success=models)
              \E e \in {FirstSaveError(items, rk)} :
                IF e # "none"
                THEN /\ api' = Given(Raised("save_many", e, 0, "none"), items, overwrite)
                     /\ UNCHANGED <<lists, results>>
                ELSE \E a \in Answers("batch_write_item", FALSE) :
                       \E sent \in {IF Len(items) > 0 THEN 1 ELSE 0} :
                       IF a # "ok" /\ sent = 1
                       THEN /\ api' = Given(Raised("save_many", a, sent, a),
                                           items, overwrite)
                            /\ UNCHANGED <<lists, results>>
                       ELSE /\ api' = Given(ReturnedResult("save_many", sent,
                                   [j \in 1..Len(items) |-> Attempt(FALSE, "ok")]),
                                   items, overwrite)
                            /\ lists' = Append(lists,
                                   [j \in 1..Len(items) |-> <<calls + 1, j>>])
                            /\ results' = Append(results,
                                   BatchResult(DefaultFail, Len(lists) + 1, calls + 1))
    /\ calls' = calls + 1
    /\ UNCHANGED gvars
    /\ UNCHANGED cvars
    /\ UNCHANGED <<kvars, hvars>>

\* items of a list given to delete_many: point identifiers and conditions
DeleteItems == {Item("scalar", <<1>>), Item("dict", <<2, 1>>),
                Item("scalar", <<Empty>>), KeyOnly, KeyAndFilter}

DeleteStrategies ==
    ApiConditions \cup {Leaf(HashKey, IS_IN), NoneValue}
        \cup {ListOf("list", items) : items \in SeqsUpTo(DeleteItems, MaxItems)}
        \cup {ListOf("compound", items) :
                items \in SeqsUpTo({Item("scalar", <<1>>), Item("scalar", <<Empty>>)}, MaxItems)}

\* the items of a list strategy parsed one after another: the first error,
\* or the positions without and with a condition
RECURSIVE ParseList(_, _, _, _)
ParseList(items, r, i, acc) ==
    IF i > Len(items) THEN acc
    ELSE LET p == ParseWithCondition(items[i], r)
         IN  IF p.err # "none" THEN [acc EXCEPT !.err = p.err]
             ELSE IF p.guarded
                  THEN ParseList(items, r, i + 1,
                                 [acc EXCEPT !.with_conditions = Append(@, i)])
             ELSE ParseList(items, r, i + 1, [acc EXCEPT !.items = Append(@, i)])

\* delete_many down to `if expression:`
DeletePlan(err, expression, raw_items, items, with_conditions) ==
    [err |-> err, expression |-> expression, raw_items |-> raw_items,
     items |-> items, with_conditions |-> with_conditions]

DeleteManyPlan(s, r) ==
    IF IsPrimitive(s) THEN
        IF s.op = IS_IN /\ r = None
        THEN IF ~HasAttr THEN DeletePlan("AttributeError", NoneValue, <<>>, <<>>, <<>>)
             ELSE IF s.field = HashKey
                  THEN DeletePlan("none", NoneValue,
                                  [i \in 1..Len(s.value) |-> Scalar(s.value[i])], <<>>, <<>>)
             ELSE DeletePlan("none", s, <<>>, <<>>, <<>>)
        ELSE DeletePlan("none", s, <<>>, <<>>, <<>>)
    ELSE IF s.kind = "compound" THEN DeletePlan("none", NoneValue, s.all, <<>>, <<>>)
    ELSE IF IsBaseCondition(s) THEN DeletePlan("none", s, <<>>, <<>>, <<>>)
    ELSE IF s.kind = "list"
         THEN ParseList(s.all, r, 1, DeletePlan("none", NoneValue, <<>>, <<>>, <<>>))
    ELSE DeletePlan("none", NoneValue, <<>>, <<>>, <<>>)

\* the loop of delete_many over with_conditions from position i on: only
\* an item _delete_one returns is appended, to result.success
RECURSIVE DeleteLoop(_, _, _, _)
DeleteLoop(with_conditions, answers, i, acc) ==
    IF i > Len(with_conditions) THEN acc
    ELSE LET sent == [acc EXCEPT !.sent = @ + 1,
                                 !.items = Append(@, Attempt(TRUE, answers[i]))]
         IN  IF answers[i] = "ok"
             THEN DeleteLoop(with_conditions, answers, i + 1,
                             [sent EXCEPT !.success = Append(@, with_conditions[i])])
             ELSE IF answers[i] \in {NoItem, CCFE}
             THEN DeleteLoop(with_conditions, answers, i + 1, sent)
             ELSE [sent EXCEPT !.err = answers[i]]

\* delete_many from `result = BatchResult()` on, for call c that made sent
\* transport calls so far: one batch write for items, then the loop
DeleteManyEnds(c, sent, items, with_conditions, given) ==
    \E a \in Answers("batch_write_item", FALSE),
       answers \in [1..Len(with_conditions) -> Answers("delete_item", TRUE)] :
      IF Len(items) > 0 /\ a # "ok"
      THEN /\ api' = Given(Raised("delete_many", a, sent + 1, a), given, NoneValue)
           /\ UNCHANGED <<lists, results>>
      ELSE \E d \in {DeleteLoop(with_conditions, answers, 1,
                       Loop("none", items, <<>>,
                            IF Len(items) > 0 THEN sent + 1 ELSE sent,
                            [j \in 1..Len(items) |-> Attempt(FALSE, "ok")]))} :
             /\ lists' = [lists EXCEPT ![DefaultSuccess] = @ \o Ids(c, d.success)]
             /\ IF d.err # "none"
                THEN /\ api' = Given([Raised("delete_many", d.err, d.sent, "none")
                                         EXCEPT !.items = d.items], given, NoneValue)
                     /\ UNCHANGED results
                ELSE /\ api' = Given(ReturnedResult("delete_many", d.sent, d.items),
                                    given, NoneValue)
                     /\ results' = Append(results,
                                          BatchResult(DefaultFail, DefaultSuccess, c))

\* the items of a strategy that lists them
ListGiven(s) == IF s.kind \in {"list", "compound"} THEN s.all ELSE <<>>

\* Model.delete_many(strategy), up to the first advance of the generator
\* when the strategy is an expression, to the end otherwise
DeleteMany(n) ==
    /\ CanCall(n)
    /\ \E s \in DeleteStrategies : \E d \in {DeleteManyPlan(s, rk)} :
         IF d.err # "none"
         THEN /\ api' = Given(Raised("delete_many", d.err, 0, "none"), ListGiven(s), NoneValue)
              /\ UNCHANGED gvars
              /\ UNCHANGED <<lists, results>>
         ELSE IF d.expression # NoneValue
         THEN /\ api' = [NoApi EXCEPT !.name = "delete_many", !.pc = "reading"]
              /\ Generator(d.expression, NoLimit, FALSE, "created")
              /\ UNCHANGED <<lists, results>>
         ELSE /\ UNCHANGED gvars
              /\ \E p \in {ParseAll(d.raw_items, rk)} :
                   IF p.err # "none"
                   THEN /\ api' = Given(Raised("delete_many", p.err, 0, "none"),
                                       ListGiven(s), NoneValue)
                        /\ UNCHANGED <<lists, results>>
                   ELSE DeleteManyEnds(calls + 1, 0,
                            d.items \o [j \in 1..Len(d.raw_items) |-> j],
                            d.with_conditions, ListGiven(s))
    /\ calls' = calls + 1
    /\ UNCHANGED cvars
    /\ UNCHANGED <<kvars, hvars>>

\* delete_many once get_many(expression) is exhausted or has raised
DeleteManyRest ==
    /\ api.pc = "reading"
    /\ pc = "done"
    /\ IF error # "none"
       THEN /\ api' = Raised("delete_many", error, ncalls,
                             IF error = ClientError THEN ClientError ELSE "none")
            /\ UNCHANGED <<lists, results>>
       ELSE DeleteManyEnds(calls, ncalls, [j \in 1..total_found |-> j], <<>>, <<>>)
    /\ UNCHANGED <<gvars, cvars, calls>>
    /\ UNCHANGED <<kvars, hvars>>

\* the updates argument of update_one
ApiUpdates ==
    {<<SetUpdate(NameField, StrV(1), FALSE)>>,
     <<SetUpdate(NameField, StrV(1), FALSE), AddUpdate(CountField, IntV(1))>>,
     <<AddUpdate(CountField, IntV(1)), SetUpdate(NestedField, StrV(1), FALSE)>>,
     <<SetUpdate(RequiredField, NoneV, FALSE)>>,
     <<>>,
     <<SetUpdate(NameField, NoneV, TRUE)>>}

\* update_one after update_item: the conditional check failure makes the
\* call return None
UpdateOneEnds(a) ==
    IF a = "ok" THEN Returned("update_one", "item", 1, a)
    ELSE IF a = CCFE THEN Returned("update_one", "None", 1, a)
    ELSE Raised("update_one", a, 1, a)

\* Model.update_one(strategy, updates); given is FALSE for updates=None.
\* The ConditionExpression (every key equal) is always sent
UpdateOne(n) ==
    /\ CanCall(n)
    /\ index < MaxIndex
    /\ \E item \in ApiOne(rk), us \in ApiUpdates, given \in BOOLEAN :
         IF ~given
         THEN /\ api' = Raised("update_one", "ValidationError", 0, "none")
              /\ UNCHANGED <<index, updates, built>>
         ELSE \E b \in {UpdateBuilderCreate(us, index)} :
                /\ updates' = us
                /\ built' = b
                /\ index' = b.index
                /\ IF b.err # "none" THEN api' = Raised("update_one", b.err, 0, "none")
                   ELSE \E p \in {ParseOneStrategy(item, rk)} :
                     IF p.err # "none" THEN api' = Raised("update_one", p.err, 0, "none")
                     ELSE \E a \in Answers("update_item", TRUE) : api' = UpdateOneEnds(a)
    /\ calls' = calls + 1
    /\ UNCHANGED gvars
    /\ UNCHANGED <<thr, lists, results>>
    /\ UNCHANGED <<kvars, hvars>>

\* one operation, called in a process that has called none before; the
\* caller then reads or saves single items, also while it holds a generator
\* that is suspended
NextApi ==
    \/ GetOne(MaxApiCalls)
    \/ GetMany(1)
    \/ DeleteOne(1)
    \/ DeleteMany(1)
    \/ DeleteManyRest
    \/ SaveOne(MaxApiCalls)
    \/ SaveMany(1)
    \/ UpdateOne(1)
    \/ Start
    \/ BatchRound
    \/ BatchResume
    \/ SearchRound
    \/ SearchResume
    \/ Close

SpecApi == InitApi /\ [][NextApi]_vars

\* a caller making up to MaxApiCalls bulk calls one after another
NextBatch ==
    \/ SaveMany(MaxApiCalls)
    \/ DeleteMany(MaxApiCalls)
    \/ DeleteManyRest
    \/ Start
    \/ SearchRound
    \/ SearchResume

SpecBatch == InitApi /\ [][NextBatch]_vars

\* ------------------------------------------------------------------------
\* Key classification and repeated dispatch of one condition object

MaxDispatch == 2

\* M.h == x & M.r.between(a, b), and the same with the operands swapped
BetweenRange ==
    {CondAnd(Leaf(HashKey, EQ), Leaf(RangeName, BETWEEN)),
     CondAnd(Leaf(RangeName, BETWEEN), Leaf(HashKey, EQ))}

ClassifierInputs == Conditions \cup BetweenRange \cup {NoneValue}

StrictLevels == {NoStrict, STRICT_HASH, STRICT_RANGE, STRICT_BOTH}

\* a caller holds a condition (or None) and is about to classify it
InitClassify ==
    /\ rk \in {None, RangeName}
    /\ strategy \in ClassifierInputs
    /\ limit = NoLimit
    /\ descending = FALSE
    /\ pc = "idle"
    /\ error = "none"
    /\ parsed = <<>>
    /\ keys = <<>>
    /\ retry_while_no_items = TRUE
    /\ total_found = 0
    /\ kwargs = NoKwargs
    /\ operation = "none"
    /\ ncalls = 0
    /\ call = NoCall
    /\ resp = NoResp
    /\ prevItems = 0 - 1
    /\ yielded = 0
    /\ row = 0
    /\ CompilerIdle
    /\ ApiIdle
    /\ strict_level \in StrictLevels
    /\ all_required \in BOOLEAN
    /\ classified = NotClassified
    /\ plans = <<>>
    /\ HeapIdle

\* one call cls._extract_key_conditions(strategy, strict_level, all_required)
Classify ==
    /\ classified = NotClassified
    /\ classified' = ExtractKeyConditions(strategy, rk, strict_level, all_required)
    /\ UNCHANGED <<gvars, cvars, avars, strict_level, all_required, plans, hvars>>

\* one call of get_many on the condition object the caller holds, up to
\* the choice of the transport operation
DispatchStrategy ==
    /\ Len(plans) < MaxDispatch
    /\ \E d \in {Dispatch(strategy, rk)} :
          /\ plans' = Append(plans, [given |-> strategy, err |-> d.err,
                                     kc |-> d.kc, fc |-> d.fc])
          /\ strategy' = d.expr
    /\ UNCHANGED <<rk, limit, descending, pc, error, parsed, keys,
                   retry_while_no_items, total_found, kwargs, operation, ncalls,
                   call, resp, prevItems, yielded, row>>
    /\ UNCHANGED <<cvars, avars, strict_level, all_required, classified, hvars>>

NextClassify == Classify \/ DispatchStrategy

SpecClassify == InitClassify /\ [][NextClassify]_vars

\* ------------------------------------------------------------------------
\* Condition builders on condition objects (conditions.py)
\*
\* nodes[i] is the object with identity i; the `all` of a join node holds
\* the identities of its children, in list order.

MaxBuilds == 2

\* nodes[i] & nodes[j]: AndCondition.__and__ appends to self.all and returns
\* self; every other condition gets BaseCondition.__and__
NodeAnd(h, i, j) ==
    IF IsAnd(h[i]) THEN [heap |-> [h EXCEPT ![i].all = Append(@, j)], ret |-> i]
    ELSE [heap |-> Append(h, AndCondition(i, j)), ret |-> Len(h) + 1]

\* nodes[i] | nodes[j]: OrCondition.__or__ appends to self.all and returns
\* self; every other condition gets BaseCondition.__or__
NodeOr(h, i, j) ==
    IF IsOr(h[i]) THEN [heap |-> [h EXCEPT ![i].all = Append(@, j)], ret |-> i]
    ELSE [heap |-> Append(h, OrCondition(i, j)), ret |-> Len(h) + 1]

\* PrimitiveCondition.__init__(field, op, value): the three arguments are
\* stored; nothing is compared with OP.num_args(op)
Construct(f, op, v) == [err |-> "none", node |-> PrimitiveCondition(f, op, v)]

\* operator and operands given to the constructor: one, two or no operand
\* more or less than the operator takes
ComparisonArgs ==
    {<<EQ, <<1>>>>, <<BETWEEN, <<1, 2>>>>, <<BETWEEN, <<1>>>>, <<EXISTS, <<1>>>>,
     <<EQ, <<>>>>}

\* held before any builder call
NoBuild == [fn |-> "none", left |-> 0, right |-> 0, op |-> "", value |-> <<>>,
            ret |-> 0, err |-> "none"]
Build(fn, left, right, op, value, ret, err) ==
    [fn |-> fn, left |-> left, right |-> right, op |-> op, value |-> value,
     ret |-> ret, err |-> err]

\* three comparisons a caller has built with the methods of Field
Built3 == <<Leaf(HashKey, EQ), Leaf(RangeName, EQ), Leaf(OtherName, CONTAINS)>>

\* the caller's objects: the comparisons alone, or with nodes[1] & nodes[2]
\* or nodes[1] | nodes[2] made from them
Heaps ==
    {Built3, NodeAnd(Built3, 1, 2).heap, NodeOr(Built3, 1, 2).heap}

InitBuild ==
    /\ GetManyIdle
    /\ CompilerIdle
    /\ ApiIdle
    /\ ClassifierIdle
    /\ nodes \in Heaps
    /\ held = <<>>

CanBuild == Len(held) < MaxBuilds

\* PrimitiveCondition(field, a[1], a[2])
BuildComparison(a) ==
    /\ CanBuild
    /\ \E c \in {Construct(OtherName, a[1], a[2])} :
          /\ nodes' = IF c.err = "none" THEN Append(nodes, c.node) ELSE nodes
          /\ held' = Append(held, Build("PrimitiveCondition", 0, 0, a[1], a[2],
                                        IF c.err = "none" THEN Len(nodes) + 1 ELSE 0,
                                        c.err))
    /\ UNCHANGED <<gvars, cvars, avars, kvars>>

\* nodes[i] & nodes[j]
BuildAnd(i, j) ==
    /\ CanBuild
    /\ i <= Len(nodes) /\ j <= Len(nodes)
    /\ \E r \in {NodeAnd(nodes, i, j)} :
          /\ nodes' = r.heap
          /\ held' = Append(held, Build("&", i, j, "", <<>>, r.ret, "none"))
    /\ UNCHANGED <<gvars, cvars, avars, kvars>>

\* nodes[i] | nodes[j]
BuildOr(i, j) ==
    /\ CanBuild
    /\ i <= Len(nodes) /\ j <= Len(nodes)
    /\ \E r \in {NodeOr(nodes, i, j)} :
          /\ nodes' = r.heap
          /\ held' = Append(held, Build("|", i, j, "", <<>>, r.ret, "none"))
    /\ UNCHANGED <<gvars, cvars, avars, kvars>>

\* every identity a node can have within MaxBuilds calls
NodeIds == 1..(Len(Built3) + 1 + MaxBuilds)

NextBuild ==
    \/ \E a \in ComparisonArgs : BuildComparison(a)
    \/ \E i \in NodeIds : \E j \in NodeIds : BuildAnd(i, j)
    \/ \E i \in NodeIds : \E j \in NodeIds : BuildOr(i, j)

SpecBuild == InitBuild /\ [][NextBuild]_vars

\* ------------------------------------------------------------------------
\* Properties of the result iterators

Paginated == operation \in {"query", "scan"}
Batch == operation = "batch_get_item"

\* C1: in paginated mode with a limit L >= 1 the iterator yields at most L
\* records in total, whatever the store returns in a round trip, and makes no
\* further call once L records have been yielded.
C1_LimitCapsPaginatedYield ==
    (Paginated /\ limit # NoLimit) =>
        /\ yielded <= limit
        /\ (yielded >= limit => pc # "search")

\* C2: in batch mode, once two consecutive round trips have each returned
\* zero items the iterator has stopped, without an error, even though the
\* store still reports unprocessed keys: no third round trip follows.
C2_StopsAfterTwoEmptyRounds ==
    (Batch /\ ncalls >= 2 /\ resp.items = 0 /\ prevItems = 0) =>
        (pc = "done" /\ error = "none")

C2_Witness ==
    /\ Batch /\ ncalls >= 2 /\ resp.items = 0 /\ prevItems = 0
    /\ pc = "done" /\ error = "none"
    /\ resp.unprocessed # <<>>
    /\ yielded < Len(parsed)

\* C3 as stated: after a round trip that returned zero items one more round
\* trip is issued only if the round trip before the empty one returned at
\* least one item.
C3_RetryOnlyAfterSuccess ==
    (Batch /\ pc = "batch" /\ ncalls >= 1 /\ resp.items = 0) => prevItems >= 1

\* C3 amended: after a round trip that returned zero items one more round
\* trip (on the unprocessed keys) is issued only if the empty round trip was
\* the first one of the call or the round trip before it returned at least
\* one item.
C3_RetryOnlyFirstOrAfterSuccess ==
    (Batch /\ pc = "batch" /\ ncalls >= 1 /\ resp.items = 0) =>
        /\ (ncalls = 1 \/ prevItems >= 1)
        /\ keys = resp.unprocessed

C3_Witness ==
    /\ Batch /\ pc = "batch" /\ ncalls >= 2
    /\ resp.items = 0 /\ prevItems >= 1
    /\ keys = resp.unprocessed /\ keys # <<>>

\* the store's cursor came with the latest response and the limit is not reached
Continues ==
    /\ resp.cursor # 0
    /\ (limit = NoLimit \/ yielded < limit)

\* the caller has taken every record of the latest response and asked for
\* one more (error = "none": the latest call was answered)
PageTaken == pc \notin {"yield", "closed"}

\* C4: in paginated mode, when a response carries a cursor and the limit is
\* not reached, the next call is the same operation with the same key
\* condition, filter and sort direction, the cursor as ExclusiveStartKey and,
\* if a limit was given, Limit = limit - records yielded so far (>= 1); the
\* iteration ends at the first response without a cursor.
C4_ContinuationCall ==
    /\ [](Paginated /\ ncalls >= 1 /\ PageTaken /\ error = "none" =>
            /\ (Continues <=> pc = "search")
            /\ (~Continues <=> pc = "done")
            /\ (resp.cursor = 0 => pc = "done"))
    /\ [][(Paginated /\ ncalls >= 1 /\ ncalls' = ncalls + 1) =>
            /\ Continues
            /\ call'.op = call.op
            /\ call'.kwargs.KeyConditionExpression = call.kwargs.KeyConditionExpression
            /\ call'.kwargs.FilterExpression = call.kwargs.FilterExpression
            /\ call'.kwargs.ScanIndexForward = call.kwargs.ScanIndexForward
            /\ call'.kwargs.ExclusiveStartKey = resp.cursor
            /\ IF limit = NoLimit THEN call'.kwargs.Limit = NoLimit
               ELSE /\ call'.kwargs.Limit = limit - yielded
                    /\ call'.kwargs.Limit >= 1]_vars

C4_Witness ==
    /\ Paginated /\ ncalls >= 2 /\ limit # NoLimit
    /\ call.kwargs.Limit < limit
    /\ call.kwargs.ExclusiveStartKey # 0
    /\ resp.cursor = 0 /\ pc = "done" /\ yielded < limit

\* ------------------------------------------------------------------------
\* Properties of the dispatch of get_many

Dispatched == pc # "created"

\* get_many raised nothing, or what the transport raised
NoDispatchError == error \in {"none", ClientError}

\* a comparison, or a join whose members are all comparisons
Flat(e) ==
    /\ IsBaseCondition(e)
    /\ (IsPrimitive(e) \/ \A i \in 1..Len(e.all) : IsPrimitive(e.all[i]))

IsKeyComparison(c) == IsPrimitive(c) /\ c.field \in SeqToSet(PrimaryKeys(rk))

\* the key part of the condition holds an IN comparison on a key attribute
HasKeyIn(e) ==
    /\ Flat(e)
    /\ \E i \in 1..Len(Candidates(e)) :
           IsKeyComparison(Candidates(e)[i]) /\ Candidates(e)[i].op = IS_IN

\* the call is a Scan whose filter is the whole condition e
ScansWith(e) ==
    /\ NoDispatchError
    /\ operation = "scan"
    /\ kwargs.KeyConditionExpression = NoCond
    /\ kwargs.FilterExpression = Cond(ToBotoAttr(e).val)

\* C5: a condition whose key part holds an IN comparison on a key attribute
\* never fails the call: it becomes a BatchGet over the IN values when the
\* model has no range key and the condition is that one hash-key comparison,
\* and otherwise a Scan with the whole condition as filter and no key
\* condition.
C5_KeyInIsRerouted ==
    (Dispatched /\ HasKeyIn(strategy)) =>
        IF rk = None /\ IsPrimitive(strategy)
        THEN /\ NoDispatchError
             /\ operation = "batch_get_item"
             /\ parsed = [i \in 1..Len(strategy.value) |-> <<strategy.value[i]>>]
        ELSE ScansWith(strategy)

\* an And of exactly a hash-key EQ comparison and a range-key comparison
IsHashEqAndRange(e) ==
    /\ rk # None
    /\ IsAnd(e) /\ Len(e.all) = 2
    /\ \E i, j \in 1..2 :
           /\ i # j
           /\ IsPrimitive(e.all[i]) /\ e.all[i].field = HashKey /\ e.all[i].op = EQ
           /\ IsPrimitive(e.all[j]) /\ e.all[j].field = rk /\ OpName(e.all[j].op) \in BotoKeyFns

\* C6: an And of a hash-key EQ comparison and a range-key comparison, with
\* no other member, becomes a Query whose key condition is the conjunction of
\* the two and which has no filter expression.
C6_HashEqAndRangeIsQuery ==
    (Dispatched /\ IsHashEqAndRange(strategy)) =>
        /\ NoDispatchError
        /\ operation = "query"
        /\ kwargs.KeyConditionExpression = Cond(ToBotoKey(strategy).val)
        /\ kwargs.FilterExpression = NoCond

\* one non-key comparison, an And of non-key comparisons, or a top-level Or
NoUsableKey(e) ==
    /\ IsBaseCondition(e)
    /\ \/ IsOr(e)
       \/ Flat(e) /\ \A i \in 1..Len(Candidates(e)) : ~IsKeyComparison(Candidates(e)[i])

\* C7: a condition with no usable key condition (one non-key comparison, an
\* And of non-key comparisons, any top-level Or) becomes a Scan, never a Query
\* or a BatchGet, with the whole condition as filter.
C7_NoKeyConditionIsScan ==
    (Dispatched /\ NoUsableKey(strategy)) =>
        /\ ScansWith(strategy)
        /\ (ncalls >= 1 => call.op = "scan")

\* a point identifier the model class accepts: every primary key has a value,
\* and a bare scalar names an item of a hash-only model
ValidPoint(item) ==
    /\ Len(item.value) >= Len(PrimaryKeys(rk))
    /\ \A i \in 1..Len(PrimaryKeys(rk)) : item.value[i] # Empty
    /\ (item.kind = "scalar" => rk = None)

\* the primary key values of a point identifier, hash key first
PointKey(item) == [i \in 1..Len(PrimaryKeys(rk)) |-> item.value[i]]

\* C8: a list of point identifiers is fetched with BatchGet round trips only,
\* over the keys parsed from the list: no Get, Query or Scan is issued, the
\* first round trip asks for the key of every item, and later ones for keys
\* among them.
C8_ListIsBatchGet ==
    (Dispatched /\ strategy.kind = "list") =>
        /\ operation \in {"none", "batch_get_item"}
        /\ (ncalls >= 1 =>
                /\ call.op = "batch_get_item"
                /\ SeqToSet(call.Keys) \subseteq SeqToSet(parsed))
        /\ (ncalls = 1 => call.Keys = parsed)
        /\ ((strategy.all # <<>> /\ \A i \in 1..Len(strategy.all) : ValidPoint(strategy.all[i])) =>
                /\ NoDispatchError
                /\ operation = "batch_get_item"
                /\ parsed = [i \in 1..Len(strategy.all) |-> PointKey(strategy.all[i])])

C8_Witness ==
    /\ strategy.kind = "list" /\ Len(strategy.all) = 2
    /\ strategy.all[1].kind = "dict" /\ strategy.all[2].kind = "model"
    /\ ncalls >= 2 /\ call.op = "batch_get_item"
    /\ Len(call.Keys) = 1 /\ Len(parsed) = 2

\* C10: a strategy that is neither a list of point identifiers, nor a
\* compound key set, nor a condition (a bare scalar, null) makes get_many
\* raise ValidationError without any transport call.
C10_UnresolvableIsValidationError ==
    (Dispatched /\ strategy.kind \in {"none", "scalar"}) =>
        /\ pc = "done"
        /\ error = "ValidationError"
        /\ ncalls = 0

\* ------------------------------------------------------------------------
\* Properties of the update compiler

\* UpdateBuilder.create has returned an expression and a value table
Compiled == built.err = "none"

\* the clauses of the compiled expression, whatever their segment
AllClauses ==
    UNION {{built.expression[i].options[j] : j \in 1..Len(built.expression[i].options)} :
              i \in 1..Len(built.expression)}

\* position of a group in the store's grammar: SET, then ADD, then REMOVE
GroupRank(action) == CASE action = SET -> 1 [] action = ADD -> 2 [] action = REMOVE -> 3

\* the templates of the clauses a group may hold
GroupFns(action) ==
    CASE action = SET -> {"set", "if_not_exists", "list_append", "list_prepend"}
      [] action = ADD -> {"add"}
      [] action = REMOVE -> {"remove"}

\* an absent value: null or the empty string
Absent(value) == value = NoneV \/ value = StrV(0)

\* the value the update's field converts its value to (Update.value) is
\* neither None nor ""
HasValue(u) ==
    /\ UpdateValue(u.field, u.value).err = "none"
    /\ ~Absent(UpdateValue(u.field, u.value).val)

\* C15: whatever the order of the updates, the compiled expression lists the
\* SET group, then the ADD group, then the REMOVE group; each group appears
\* at most once and only if it has a clause; every update that yields a
\* clause has it in the group of its kind; and the value table holds exactly
\* the placeholders of the clauses.
C15_GroupsInGrammarOrder ==
    Compiled =>
        /\ \A i, j \in 1..Len(built.expression) :
               i < j => GroupRank(built.expression[i].action) < GroupRank(built.expression[j].action)
        /\ \A i \in 1..Len(built.expression) :
               /\ Len(built.expression[i].options) > 0
               /\ \A k \in 1..Len(built.expression[i].options) :
                      built.expression[i].options[k].fn \in GroupFns(built.expression[i].action)
        /\ \A i \in 1..Len(updates) :
               /\ (updates[i].kind = "remove" \/ (updates[i].kind = "set" /\ ~HasValue(updates[i])
                                                    /\ ~updates[i].if_not_exists)) =>
                      \E c \in AllClauses : c.fn = "remove" /\ c.name = updates[i].field.name
               /\ (updates[i].kind = "add" /\ HasValue(updates[i])) =>
                      \E c \in AllClauses : c.fn = "add" /\ c.name = updates[i].field.name
               /\ (updates[i].kind = "set" /\ HasValue(updates[i])) =>
                      \E c \in AllClauses : c.fn \in {"set", "if_not_exists"}
                                               /\ c.name = updates[i].field.name
        /\ DOMAIN built.values = {c.ph : c \in {d \in AllClauses : d.ph # 0}}

C15_Witness ==
    /\ Compiled
    /\ Len(updates) = 3
    /\ updates[1].kind = "remove" /\ updates[2].kind = "add" /\ updates[3].kind = "set"
    /\ Len(built.expression) = 3
    /\ built.expression[1].action = SET /\ built.expression[3].action = REMOVE

\* the updates [set(name, "X"), add(count, 1), remove(tag)]
RoundTripUpdates ==
    <<SetUpdate(NameField, StrV(1), FALSE), AddUpdate(CountField, IntV(1)),
      RemoveUpdate(TagField)>>

\* one SET, one ADD and one REMOVE segment of one clause each, in that order
OneSegmentEach ==
    /\ Compiled
    /\ Len(built.expression) = 3
    /\ built.expression[1].action = SET /\ Len(built.expression[1].options) = 1
    /\ built.expression[2].action = ADD /\ Len(built.expression[2].options) = 1
    /\ built.expression[3].action = REMOVE /\ Len(built.expression[3].options) = 1

\* C16 as stated: compiling [set(name, "X"), add(count, 1), remove(tag)]
\* gives one SET, one ADD and one REMOVE segment, in that order, and a value
\* table of three distinct placeholders.
C16_RoundTripThreePlaceholders ==
    (updates = RoundTripUpdates /\ built # NotBuilt) =>
        /\ OneSegmentEach
        /\ Cardinality(DOMAIN built.values) = 3

\* C16 amended: compiling [set(name, "X"), add(count, 1), remove(tag)] gives
\* one SET, one ADD and one REMOVE segment, in that order, and a value table
\* of two distinct placeholders, one for the SET clause and one for the ADD
\* clause; the REMOVE clause binds none.
C16_RoundTripTwoPlaceholders ==
    (updates = RoundTripUpdates /\ built # NotBuilt) =>
        /\ OneSegmentEach
        /\ Cardinality(DOMAIN built.values) = 2
        /\ built.expression[1].options[1].ph # built.expression[2].options[1].ph
        /\ DOMAIN built.values =
               {built.expression[1].options[1].ph, built.expression[2].options[1].ph}
        /\ built.expression[3].options[1].ph = 0

C16_Witness ==
    /\ updates = RoundTripUpdates
    /\ Compiled
    /\ Cardinality(DOMAIN built.values) = 2

\* the call compiled the single update of a Set with an absent value on a
\* top-level attribute
SetAbsentAlone ==
    /\ built # NotBuilt
    /\ Len(updates) = 1
    /\ updates[1].kind = "set"
    /\ Absent(updates[1].value)
    /\ ~IsNested(updates[1].field)

\* exactly one REMOVE clause on the attribute, and no placeholder
OnlyRemoveClause(name) ==
    /\ Compiled
    /\ built.expression = <<[action |-> REMOVE, options |-> <<Clause(name, "remove", 0)>>]>>
    /\ built.values = <<>>

CompiledToNothing ==
    /\ Compiled
    /\ built.expression = <<>>
    /\ built.values = <<>>

\* C17 as stated: a Set with an absent value (None or "") on a top-level
\* attribute compiles to exactly one REMOVE clause on it, without placeholder,
\* when if_not_exists is false, and to nothing when if_not_exists is true.
C17_SetAbsent ==
    SetAbsentAlone =>
        IF updates[1].if_not_exists THEN CompiledToNothing
        ELSE OnlyRemoveClause(updates[1].field.name)

\* exactly one SET clause on the attribute, its placeholder bound to value
OnlySetClause(name, fn, value) ==
    /\ Compiled
    /\ Len(built.expression) = 1 /\ built.expression[1].action = SET
    /\ Len(built.expression[1].options) = 1
    /\ built.expression[1].options[1].name = name
    /\ built.expression[1].options[1].fn = fn
    /\ DOMAIN built.values = {built.expression[1].options[1].ph}
    /\ \A p \in DOMAIN built.values : built.values[p] = value

\* a member of the DictField, at any depth, that is not a DictField is
\* required
RECURSIVE RequiresMember(_)
RequiresMember(field) ==
    \E i \in 1..Len(field.fields) :
        IF field.fields[i].type = "dict" THEN RequiresMember(field.fields[i])
        ELSE field.fields[i].required

\* the map that holds, for each member that is itself a DictField, the map
\* of that kind of the member; {} when no member is a DictField
RECURSIVE EmptyMaps(_)
EmptyMaps(fields) ==
    IF fields = <<>> THEN <<>>
    ELSE (IF Head(fields).type = "dict"
          THEN <<<<Head(fields).name[Len(Head(fields).name)],
                   [t |-> "dict", e |-> EmptyMaps(Head(fields).fields)]>>>>
          ELSE <<>>)
             \o EmptyMaps(Tail(fields))

\* C17 amended: a Set with an absent value (None or "") on a top-level
\* attribute that is not required compiles to exactly one REMOVE clause on
\* it, without placeholder, when if_not_exists is false, and to nothing when
\* if_not_exists is true.  On a required attribute it does neither: a
\* field other than a DictField raises ValidationError; a DictField (always
\* required) raises AttributeError for "", ValidationError for None when
\* a member of it, at any depth, that is not a DictField is required, and
\* otherwise takes None for the empty map and compiles to one SET clause
\* that binds the map holding an empty map of that kind for each member
\* that is a DictField, which is {} when it has none.
C17_SetAbsentNotRequired ==
    SetAbsentAlone =>
        LET u == updates[1]
        IN  IF ~u.field.required
            THEN IF u.if_not_exists THEN CompiledToNothing
                 ELSE OnlyRemoveClause(u.field.name)
            ELSE IF u.field.type # "dict"
            THEN built.err = "ValidationError" /\ built.values = <<>>
            ELSE IF u.value = StrV(0)
            THEN built.err = "AttributeError" /\ built.values = <<>>
            ELSE IF RequiresMember(u.field)
            THEN built.err = "ValidationError" /\ built.values = <<>>
            ELSE OnlySetClause(u.field.name,
                               IF u.if_not_exists THEN "if_not_exists" ELSE "set",
                               [t |-> "dict", e |-> EmptyMaps(u.field.fields)])

C17_Witness ==
    /\ SetAbsentAlone
    /\ updates[1].value = StrV(0)
    /\ ~updates[1].field.required
    /\ OnlyRemoveClause(updates[1].field.name)

\* C18: an Add whose delta is zero (or None, or "") compiles to nothing: no
\* ADD clause and no placeholder in the value table.
C18_AddZeroIsNothing ==
    (/\ built # NotBuilt
     /\ Len(updates) = 1
     /\ updates[1].kind = "add"
     /\ ~IsNested(updates[1].field)
     /\ (Absent(updates[1].value) \/ updates[1].value = IntV(0)))
        => CompiledToNothing

\* C19: a ListExtend with an empty list of values compiles to nothing, for
\* append and for prepend: no SET clause and no placeholder in the value
\* table.
C19_ExtendEmptyIsNothing ==
    (/\ built # NotBuilt
     /\ Len(updates) = 1
     /\ updates[1].kind = "extend"
     /\ updates[1].value = ListV(0))
        => CompiledToNothing

\* ------------------------------------------------------------------------
\* Properties of the placeholder generator under threads

\* every placeholder handed out so far, as <<thread, position>>
HandedOut == {c \in Threads \X (1..MaxCalls) : c[2] <= Len(thr[c[1]].names)}

NameOf(c) == thr[c[1]].names[c[2]]

\* no two calls of placeholder() returned the same name (two clauses of
\* one expression included)
NamesDistinct ==
    \A c \in HandedOut, d \in HandedOut : c # d => NameOf(c) # NameOf(d)

\* C20: under any interleaving of threads the placeholder generator never
\* returns the same name twice, so no expression has two clauses sharing
\* a placeholder, and the counter never decreases.
C20_PlaceholdersNeverRepeat ==
    [](thr # <<>> => NamesDistinct) /\ [][index' >= index]_vars

\* ------------------------------------------------------------------------
\* Properties of the Model operations

\* the latest call has ended: it returned or raised
Ended == api.pc \in {"returned", "raised"}

\* errors of the transport, as opposed to those of classification, parsing
\* and compilation
TransportErrors == {ClientError, CCFE}

\* the latest call raised an error of classification, parsing or compilation
RaisedBeforeStore == api.pc = "raised" /\ api.err \notin TransportErrors

\* the generator of the latest get_many call raised such an error
GeneratorRaised ==
    /\ api.name = "get_many"
    /\ pc = "done"
    /\ error \notin TransportErrors \cup {"none"}

EagerOperations == {"get_one", "delete_one", "delete_many", "update_one"}

\* C11 as stated: for get_one, get_many, delete_one, delete_many and
\* update_one an error of classification, parsing or compilation is raised
\* by the call itself, before any transport call of the operation.
C11_ErrorsRaisedByTheCall ==
    /\ (api.name \in EagerOperations /\ RaisedBeforeStore) => api.sent = 0
    /\ GeneratorRaised => (api.pc = "raised" /\ ncalls = 0)

\* C11, amended: get_one, delete_one, delete_many and update_one raise an
\* error of classification, parsing or compilation from the call itself;
\* get_many returns a generator and raises it when the generator is first
\* advanced; in each case no transport call of the operation came before.
C11_ErrorsBeforeTransport ==
    /\ (api.name \in EagerOperations /\ RaisedBeforeStore) => api.sent = 0
    /\ (api.name \in EagerOperations /\ Ended /\ api.sent > 0) =>
            api.err \in TransportErrors \cup {"none"}
    /\ GeneratorRaised => (api.pc = "created" /\ api.ret = "generator" /\ ncalls = 0)

\* a get_many call returned its generator and the first advance raised
C11_Witness == GeneratorRaised /\ api.pc = "created" /\ ncalls = 0

SingleMutations == {"save_one", "delete_one", "update_one"}

\* C12 as stated: a conditional check failure on save_one, delete_one or
\* update_one is raised to the caller as ConditionalCheckFailedException,
\* and any other transport error is raised unchanged.
C12_CheckFailureRaised ==
    (api.name \in SingleMutations /\ Ended) =>
        /\ api.answer = CCFE => (api.pc = "raised" /\ api.err = CCFE)
        /\ api.answer = ClientError => (api.pc = "raised" /\ api.err = ClientError)

\* the bulk call was given items with a guard: save_many with overwrite
\* other than True, delete_many with a condition that holds more than the key
GuardedBatch ==
    \/ api.name = "save_many" /\ api.guard # OverwriteTrue /\ Len(api.given) > 0
    \/ api.name = "delete_many" /\ \E i \in 1..Len(api.given) : api.given[i] = KeyAndFilter

\* every item given is one the operation documents: a dict or an instance
\* with its keys to save; a point identifier or, on a hash-only model, a
\* condition with the hash key to delete
DocumentedItem(item) ==
    IF api.name = "save_many" THEN item.kind \in {"dict", "model"} /\ ValidPoint(item)
    ELSE IF IsBaseCondition(item) THEN rk = None /\ item \in {KeyOnly, KeyAndFilter}
    ELSE ValidPoint(item)

DocumentedBatch == \A i \in 1..Len(api.given) : DocumentedItem(api.given[i])

\* the store answered every call of the operation with ok or with a
\* failed conditional check
NoOtherTransportError ==
    /\ api.err # ClientError
    /\ \A i \in 1..Len(api.items) : api.items[i].answer # ClientError

\* C13: a save_many or delete_many given guarded items attempts every item
\* and returns a BatchResult whose fail list holds every item whose guard
\* failed.
C13_FailedGuardsRecorded ==
    (Ended /\ GuardedBatch /\ DocumentedBatch /\ NoOtherTransportError) =>
        /\ api.pc = "returned"
        /\ Len(api.items) = Len(api.given)
        /\ \A i \in 1..Len(api.items) :
             api.items[i].answer = CCFE =>
                \E j \in 1..Len(lists[results[api.result].fail]) :
                    lists[results[api.result].fail][j] = <<calls, i>>

\* the objects in the list with identity l
Members(l) == {lists[l][j] : j \in 1..Len(lists[l])}

\* C14: the success and fail lists of every BatchResult returned hold only
\* outcomes of the call that returned it, whatever calls came later, and no
\* two results share a list.
C14_BatchResultsCallScoped ==
    /\ \A i \in 1..Len(results) :
         \A x \in Members(results[i].success) \cup Members(results[i].fail) :
            x[1] = results[i].call
    /\ \A i, j \in 1..Len(results) :
         i # j => {results[i].success, results[i].fail}
                     \cap {results[j].success, results[j].fail} = {}

\* ------------------------------------------------------------------------
\* Properties of the key classifier

\* the attributes of the KeySpec
KeySpec == IF rk = None THEN {HashKey} ELSE {HashKey, rk}

\* the comparisons the condition offers as key-bearing: the condition
\* itself, or the direct children of a top-level And, on a key attribute
Eligible ==
    LET direct == IF strategy.kind = "prim" THEN <<strategy>>
                  ELSE IF strategy.kind = "and" THEN strategy.all
                  ELSE <<>>
        OnKey(e) == e.kind = "prim" /\ e.field \in KeySpec
    IN  SelectSeq(direct, OnKey)

\* the classifier has answered for the condition as the caller built it
Classified == classified # NotClassified /\ plans = <<>>

\* every eligible comparison is an equality, each on a key of its own
ExactKey ==
    /\ \A i \in 1..Len(Eligible) : Eligible[i].op = EQ
    /\ \A i, j \in 1..Len(Eligible) : Eligible[i].field = Eligible[j].field => i = j

\* C21: with allRequired set, classification raises ExpressionError
\* whenever the number of eligible key comparisons differs from the number
\* of KeySpec attributes (none included); when the counts match under BOTH
\* strictness with EQ on every key, it returns exactly those comparisons in
\* the order they appear in the condition.
C21_AllRequiredCounts ==
    (Classified /\ all_required) =>
        /\ Len(Eligible) # Cardinality(KeySpec) => classified.err = "ExpressionError"
        /\ (Len(Eligible) = Cardinality(KeySpec) /\ strict_level = STRICT_BOTH /\ ExactKey)
               => /\ classified.err = "none"
                  /\ ~classified.isNone
                  /\ classified.val = Eligible

\* the strictness mode covers the attribute of comparison e
Covered(e) ==
    \/ strict_level \in {STRICT_HASH, STRICT_BOTH} /\ e.field = HashKey
    \/ strict_level \in {STRICT_RANGE, STRICT_BOTH} /\ rk # None /\ e.field = rk

\* C22: under a strictness mode, a key comparison on an attribute the mode
\* covers whose operator is not EQ makes classification raise
\* ExpressionError, as hashAttr.gt(X) & rangeAttr.eq(Y) under HASH_ONLY.
C22_CoveredKeyMustBeEq ==
    (Classified /\ \E i \in 1..Len(Eligible) : Covered(Eligible[i]) /\ Eligible[i].op # EQ)
        => classified.err = "ExpressionError"

\* hashAttr.eq(X) & rangeAttr.between(A, B) classified under RANGE_ONLY
HashEqRangeBetween ==
    /\ Classified
    /\ rk = RangeName
    /\ strict_level = STRICT_RANGE
    /\ strategy.kind = "and"
    /\ Len(strategy.all) = 2
    /\ strategy.all[1].kind = "prim" /\ strategy.all[1].field = HashKey
    /\ strategy.all[1].op = EQ
    /\ strategy.all[2].kind = "prim" /\ strategy.all[2].field = RangeName
    /\ strategy.all[2].op = BETWEEN

\* C23 as stated: classifying hashAttr.eq(X) & rangeAttr.between(A, B)
\* under RANGE_ONLY strictness succeeds and returns both comparisons.
C23_RangeOnlyBetweenSucceeds ==
    HashEqRangeBetween => (classified.err = "none" /\ classified.val = strategy.all)

\* C24: when the only key comparison present is on the range key, the hash
\* key being absent, classification raises ExpressionError under every
\* strictness mode.
C24_RangeKeyAlone ==
    (Classified /\ rk # None /\ Len(Eligible) = 1 /\ Eligible[1].field = rk)
        => classified.err = "ExpressionError"

\* what the classifier returns is taken from the eligible comparisons
ReturnsEligibleOnly ==
    (Classified /\ classified.err = "none") =>
        \A i \in 1..Len(classified.val) :
            \E j \in 1..Len(Eligible) : classified.val[i] = Eligible[j]

TopLevelOr == Classified /\ strategy.kind = "or"

\* C25 as stated: a comparison is key-bearing only if it is the condition
\* itself or a direct child of a single top-level And; comparisons nested
\* in an Or are never returned, and a top-level Or classifies to null
\* whatever it contains.
C25_OrClassifiesToNull ==
    /\ ReturnsEligibleOnly
    /\ TopLevelOr => (classified.err = "none" /\ classified.isNone)

\* C25, amended: a comparison is key-bearing only if it is the condition
\* itself or a direct child of a single top-level And; comparisons nested
\* in an Or are never returned; a top-level Or classifies to null when
\* allRequired is unset and raises ExpressionError when it is set,
\* whatever the Or contains.
C25_OrOffersNoKey ==
    /\ ReturnsEligibleOnly
    /\ (TopLevelOr /\ ~all_required) => (classified.err = "none" /\ classified.isNone)
    /\ (TopLevelOr /\ all_required) => classified.err = "ExpressionError"

\* an Or holding an equality on the hash key was classified to null
C25_Witness ==
    /\ TopLevelOr
    /\ ~all_required
    /\ \E i \in 1..Len(strategy.all) :
           /\ strategy.all[i].kind = "prim"
           /\ strategy.all[i].field = HashKey
           /\ strategy.all[i].op = EQ
    /\ classified.isNone

\* ------------------------------------------------------------------------
\* Properties of the condition builders

\* calls a and a + 1 are (c1 op c2) and (that result op c3), and nothing
\* was built since
Repeated(a) ==
    /\ Len(held) = a + 1
    /\ held[a].fn \in {"&", "|"}
    /\ held[a + 1].fn = held[a].fn
    /\ held[a + 1].left = held[a].ret

\* C26 as stated: joining three conditions c1, c2, c3 with the same
\* operator by repeated calls, (c1 & c2) & c3 or (c1 | c2) | c3, yields one
\* join node whose children are exactly [c1, c2, c3] in that order; the
\* second call appends to the node the first returned and returns it.
C26_ThreeChildren ==
    \A a \in 1..(Len(held) - 1) :
        Repeated(a) =>
            /\ held[a + 1].ret = held[a].ret
            /\ nodes[held[a].ret].all = <<held[a].left, held[a].right, held[a + 1].right>>

\* C27: a builder never alters a node that is referenced elsewhere: for
\* every node n the caller still holds, n & c or n | c leaves the child
\* list seen through every other reference to n unchanged.
C27_HeldNodesUnaltered ==
    [][\A n \in 1..Len(nodes) : nodes'[n].all = nodes[n].all]_vars

\* C28: constructing a Comparison whose operand count differs from the
\* arity of its operator fails at construction with ExpressionError.
C28_ArityCheckedAtConstruction ==
    \A k \in 1..Len(held) :
        (held[k].fn = "PrimitiveCondition" /\ Len(held[k].value) # NumArgs(held[k].op))
            => held[k].err = "ExpressionError"

\* ------------------------------------------------------------------------
\* Properties of repeated dispatch

\* C29: _extract_attr_cond leaves the caller's condition tree unchanged:
\* every And/Or node has the same children before and after, and
\* dispatching the same condition twice yields the same key condition and
\* the same filter.
C29_ConditionTreeUnchanged ==
    /\ \A k \in 1..Len(plans) :
           IF k < Len(plans) THEN plans[k + 1].given = plans[k].given
           ELSE strategy = plans[k].given
    /\ \A k \in 1..(Len(plans) - 1) :
           /\ plans[k + 1].err = plans[k].err
           /\ plans[k + 1].kc = plans[k].kc
           /\ plans[k + 1].fc = plans[k].fc

\* a & of two | nodes was dispatched twice: each time the filter is the
\* conjunction of both, made by `and_exp &= e`
C29_Witness ==
    /\ Len(plans) = 2
    /\ IsAnd(strategy) /\ Len(strategy.all) = 2
    /\ IsOr(strategy.all[1]) /\ IsOr(strategy.all[2])
    /\ plans[1].err = "none"
    /\ plans[1].fc = Cond(ToBotoAttr(strategy).val)
    /\ plans[2].fc = plans[1].fc
    /\ plans[2].given = plans[1].given

\* ------------------------------------------------------------------------
\* Properties of update_one

\* the latest update_one call compiled its updates to the empty expression
UpdateCompiledToNothing ==
    /\ api.name = "update_one"
    /\ built.err = "none"
    /\ built.expression = <<>>

\* C30: update_one never calls the transport with an empty update
\* expression: an update list that is empty, or whose updates all compile
\* to no-ops, makes it raise ValidationError before any transport call.
C30_NoEmptyUpdateSent ==
    UpdateCompiledToNothing =>
        /\ api.pc = "raised"
        /\ api.err = "ValidationError"
        /\ api.sent = 0

====
